---- MODULE Spec2Model ----
(***************************************************************************)
(* A model of the DAG ingestion and ordering core of dag1: the Poset       *)
(* (InsertEvent, the frame / root / clotho / atropos machinery, the        *)
(* consensus pipeline and the commit channel) over the in-memory store.    *)
(*                                                                         *)
(* The Poset and its store are one record, `poset`, whose fields carry the *)
(* names of the Go fields; every method is an operator from a Poset record *)
(* to a Poset record, and every action applies one method.                 *)
(***************************************************************************)
EXTENDS Integers, Sequences, FiniteSets, TLC

VARIABLES
    poset,      \* the Poset struct, its Store (InmemStore) in the field Store
    commitCh,   \* the buffer of the commit channel (chan Block)
    received,   \* the blocks the application has taken from the channel
    pdr         \* the position of every ProcessDecidedRounds call

vars == <<poset, commitCh, received, pdr>>

-----------------------------------------------------------------------------
(* Bounds of the model *)

MaxEvents == 2       \* InsertEvent calls that reach the store
MaxIndex == 1        \* creator-local indices an incoming event may carry
MaxFinalFrame == 3   \* frames the finality loop may emit
ChanCap == 1         \* capacity of the commit channel
MaxTopologicalIndex == 2   \* topological indices InsertEvent may hand out

UintRange == 16      \* the values of an unsigned word (a balance, an amount)
TotalSupply == 4     \* pos.Config.TotalSupply
MaxRound == 2        \* rounds GetFrame is asked for
MaxSigPool == 2
MaxCalls == 1
MaxServers == 2
MaxTime == 2
MaxInserted == 3
MaxGap == 4
MaxVoteTime == 2

Peers == {1, 2}      \* the participants, by id (id = public key)
Callers == {1, 2}    \* the goroutines that call ProcessDecidedRounds
Payloads == {0, 1}   \* the number of transactions of an incoming event

-----------------------------------------------------------------------------
(* Program constants *)

LamportTimestampNIL == -1
FrameNIL == -1
CoinInterval == 4

\* peers.GetSuperMajority / GetTrustCount, of the participants of a store
GetSuperMajority(s) == (2 * Cardinality(s.participants)) \div 3 + 1
GetTrustCount(s) == Cardinality(s.participants) \div 3

-----------------------------------------------------------------------------
(* Hashes. A hash names an event: <<creator, index, variant>>; two events  *)
(* of one creator with one index (a fork) differ in the variant.           *)

ZeroHash == <<0, 0, 0>>             \* EventHash{}: no parent
UnknownHash == <<0, 1, 0>>          \* the hash of an event the store never saw
OtherUnknownHash == <<0, 2, 0>>     \* the hash of another such event
GenRootSelfParent(c) == <<c, -1, 0>>

NewFlagTable == [h \in {} |-> 0]

\* The zero value Event{} that GetEventBlock returns beside an error.
ZeroEvent ==
    [Hash |-> ZeroHash, Creator |-> 0, Index |-> 0,
     SelfParent |-> ZeroHash, OtherParent |-> ZeroHash, Txs |-> 0,
     InternalTransactions |-> <<>>, BlockSignatures |-> <<>>,
     Signature |-> <<0, 0>>,
     TopologicalIndex |-> 0, LamportTimestamp |-> 0, Frame |-> 0,
     FlagTable |-> NewFlagTable, RootTable |-> NewFlagTable,
     Root |-> FALSE, Clotho |-> FALSE, Atropos |-> FALSE,
     AtroposTimestamp |-> 0, FrameReceived |-> 0]

\* An event as it reaches InsertEvent (NewEvent, ReadWireInfo): the body is
\* set, lamport and frame are NIL, the other engine fields are zero.
NewEvent(h, c, i, sp, op, txs, sigs) ==
    [ZeroEvent EXCEPT !.Hash = h, !.Creator = c, !.Index = i,
                      !.SelfParent = sp, !.OtherParent = op, !.Txs = txs,
                      !.BlockSignatures = sigs,
                      !.LamportTimestamp = LamportTimestampNIL,
                      !.Frame = FrameNIL]

IsLoaded(e) == e.Txs > 0

-----------------------------------------------------------------------------
(* Roots *)

\* NewBaseRoot: index -1, lamport -1, round -1, next round 0, no others.
NewBaseRoot(c) ==
    [NextRound |-> 0,
     SelfParent |-> [Hash |-> GenRootSelfParent(c), CreatorID |-> c, Index |-> -1,
                     LamportTimestamp |-> -1, Round |-> -1],
     Others |-> [h \in {} |-> [Hash |-> ZeroHash, LamportTimestamp |-> 0]]]

-----------------------------------------------------------------------------
(* The participant events cache: per participant the hashes of its events  *)
(* by creator-local index, a gap-free run that starts at First.            *)

EmptyIndex == [First |-> 0, Items |-> <<>>]

LastIndex(pe) == pe.First + Len(pe.Items) - 1

\* ParticipantEventsCache.Set: "ok", or the store error.
ParticipantSetErr(pe, index) ==
    IF pe.Items = <<>> THEN "nil"
    ELSE IF index > LastIndex(pe) + 1 THEN "SkippedIndex"
    ELSE IF index < pe.First THEN "PassedIndex"
    ELSE "nil"

ParticipantSet(pe, hash, index) ==
    IF pe.Items = <<>> THEN [First |-> index, Items |-> <<hash>>]
    ELSE IF index = LastIndex(pe) + 1 THEN [pe EXCEPT !.Items = Append(@, hash)]
    ELSE [pe EXCEPT !.Items[index - pe.First + 1] = hash]

-----------------------------------------------------------------------------
(* InmemStore *)

\* RoundCreated{}: not queued, no events.
NewRoundCreated == [Queued |-> FALSE, Events |-> [h \in {} |-> 0]]

\* pos.FakeGenesis: every participant holds an equal share of the supply.
FakeGenesis(participants) ==
    [a \in participants |-> TotalSupply \div Cardinality(participants)]

NewInmemStore(participants) ==
    [participants |-> participants,
     stateRoot |-> FakeGenesis(participants),
     eventCache |-> [h \in {} |-> ZeroEvent],
     participantEventsCache |-> [c \in participants |-> EmptyIndex],
     rootsByParticipant |-> [c \in participants |-> NewBaseRoot(c)],
     roundCreatedCache |-> [r \in {} |-> NewRoundCreated],
     roundReceivedCache |-> [r \in {} |-> <<>>],
     lastRound |-> -1,
     clothoCheckCache |-> {},
     clothoCheckCreatorCache |-> [k \in {} |-> ZeroHash],
     timeTableCache |-> [h \in {} |-> NewFlagTable],
     totConsensusEvents |-> 0,
     consensusCache |-> <<>>,
     lastConsensusEvents |-> [c \in {} |-> ZeroHash],
     blockCache |-> [i \in {} |-> 0],
     frameCache |-> [r \in {} |-> 0],
     lastBlock |-> -1]

HasEvent(s, h) == h \in DOMAIN s.eventCache

\* GetEventBlock: the event, or Event{} with KeyNotFound.
GetEventBlock(s, h) == IF HasEvent(s, h) THEN s.eventCache[h] ELSE ZeroEvent

\* LastEventFrom: the creator's last event, or its Root's self-parent hash.
LastEventFrom(s, c) ==
    LET pe == s.participantEventsCache[c] IN
    IF pe.Items # <<>> THEN pe.Items[Len(pe.Items)]
    ELSE s.rootsByParticipant[c].SelfParent.Hash

SetEventErr(s, ev) ==
    IF HasEvent(s, ev.Hash) THEN "nil"
    ELSE ParticipantSetErr(s.participantEventsCache[ev.Creator], ev.Index)

SetEvent(s, ev) ==
    LET s1 == IF HasEvent(s, ev.Hash) THEN s
              ELSE [s EXCEPT !.participantEventsCache[ev.Creator] =
                                 ParticipantSet(@, ev.Hash, ev.Index)]
    IN [s1 EXCEPT !.eventCache =
            [h \in DOMAIN s.eventCache \cup {ev.Hash} |->
                IF h = ev.Hash THEN ev ELSE s.eventCache[h]]]

HasRoundCreated(s, r) == r \in DOMAIN s.roundCreatedCache

GetRoundCreated(s, r) ==
    IF HasRoundCreated(s, r) THEN s.roundCreatedCache[r] ELSE NewRoundCreated

\* SetRoundCreated: the record of a round is replaced, lastRound follows.
SetRoundCreated(s, r, round) ==
    [s EXCEPT !.roundCreatedCache =
                  [x \in DOMAIN @ \cup {r} |-> IF x = r THEN round ELSE @[x]],
              !.lastRound = IF r > @ THEN r ELSE @]

GetRoundReceived(s, r) ==
    IF r \in DOMAIN s.roundReceivedCache THEN s.roundReceivedCache[r] ELSE <<>>

SetRoundReceived(s, r, round) ==
    [s EXCEPT !.roundReceivedCache =
                  [x \in DOMAIN @ \cup {r} |-> IF x = r THEN round ELSE @[x]],
              !.lastRound = IF r > @ THEN r ELSE @]

\* RoundCreated.AddEvent, ClothoDecided, Atropos
AddRoundEvent(round, x, clotho) ==
    IF x \in DOMAIN round.Events THEN round
    ELSE [round EXCEPT !.Events =
             [h \in DOMAIN @ \cup {x} |->
                 IF h = x THEN [Clotho |-> clotho, Atropos |-> "UNDEFINED"]
                 ELSE @[h]]]

ClothoDecided(round) ==
    \A h \in DOMAIN round.Events :
        round.Events[h].Clotho => round.Events[h].Atropos # "UNDEFINED"

RoundAtropos(round) ==
    {h \in DOMAIN round.Events :
        round.Events[h].Clotho /\ round.Events[h].Atropos = "TRUE"}

AddClothoCheck(s, frame, creatorID, hash) ==
    [s EXCEPT !.clothoCheckCache = @ \cup {<<frame, hash>>},
              !.clothoCheckCreatorCache =
                  [k \in DOMAIN @ \cup {<<frame, creatorID>>} |->
                      IF k = <<frame, creatorID>> THEN hash ELSE @[k]]]

\* GetClothoCheck finds the hash it is asked for, or KeyNotFound.
HasClothoCheck(s, frame, hash) == <<frame, hash>> \in s.clothoCheckCache

HasClothoCreatorCheck(s, frame, creatorID) ==
    <<frame, creatorID>> \in DOMAIN s.clothoCheckCreatorCache

GetClothoCreatorCheck(s, frame, creatorID) ==
    s.clothoCheckCreatorCache[<<frame, creatorID>>]

HasTimeTable(s, hash) == hash \in DOMAIN s.timeTableCache

GetTimeTable(s, hash) == s.timeTableCache[hash]

AddTimeTable(s, hashTo, hashFrom, lamportTime) ==
    LET ft == IF HasTimeTable(s, hashTo) THEN s.timeTableCache[hashTo]
              ELSE NewFlagTable
        ft2 == [h \in DOMAIN ft \cup {hashFrom} |->
                   IF h = hashFrom THEN lamportTime ELSE ft[h]]
    IN [s EXCEPT !.timeTableCache =
            [h \in DOMAIN @ \cup {hashTo} |-> IF h = hashTo THEN ft2 ELSE @[h]]]

AddConsensusEvent(s, ev) ==
    [s EXCEPT !.consensusCache = Append(@, ev.Hash),
              !.totConsensusEvents = @ + 1,
              !.lastConsensusEvents =
                  [c \in DOMAIN @ \cup {ev.Creator} |->
                      IF c = ev.Creator THEN ev.Hash ELSE @[c]]]

HasRoundReceived(s, r) == r \in DOMAIN s.roundReceivedCache

HasFrame(s, r) == r \in DOMAIN s.frameCache

SetFrame(s, frame) ==
    [s EXCEPT !.frameCache =
        [r \in DOMAIN @ \cup {frame.Round} |->
            IF r = frame.Round THEN frame ELSE @[r]]]

SetBlock(s, block) ==
    [s EXCEPT !.blockCache =
                  [i \in DOMAIN @ \cup {block.Index} |->
                      IF i = block.Index THEN block ELSE @[i]],
              !.lastBlock = IF block.Index > @ THEN block.Index ELSE @]

\* The finality test of the in-memory store is a stub.
CheckFrameFinality(s, frame) == TRUE

\* ProcessOutFrame of the in-memory store: no transactions.
ProcessOutFrame(s, frame) == 0

-----------------------------------------------------------------------------
(* Flag tables *)

\* Event.MergeFlagTable: the event's flag table joined with dst.
MergeFlagTable(e, dst, frame) ==
    [h \in DOMAIN e.FlagTable \cup DOMAIN dst |->
        IF h \in DOMAIN e.FlagTable THEN e.FlagTable[h] ELSE dst[h]]

FlagTableSetNone(ft, h, v) == ft

FlagTableSet(ft, h, v) ==
    [x \in DOMAIN ft \cup {h} |-> IF x = h THEN v ELSE ft[x]]

-----------------------------------------------------------------------------
(* Poset *)

NewPoset(store) ==
    [Store |-> store,
     UndeterminedEvents |-> <<>>,
     PendingRounds |-> <<>>,
     PendingRoundReceived |-> <<>>,
     LastConsensusRound |-> <<>>,      \* a nil pointer is the empty sequence
     FirstConsensusRound |-> <<>>,
     AnchorBlock |-> <<>>,
     SigPool |-> <<>>,
     ConsensusTransactions |-> 0,
     pendingLoadedEvents |-> 0,
     topologicalIndex |-> 0,
     nextFinalFrame |-> 0,
     hasCommitCh |-> TRUE]

GetLastConsensusRound(p) ==
    IF p.LastConsensusRound = <<>> THEN -2 ELSE p.LastConsensusRound[1]

setLastConsensusRound(p, i) ==
    [p EXCEPT !.LastConsensusRound = <<i>>,
              !.FirstConsensusRound = IF @ = <<>> THEN <<i>> ELSE @]

accountEvent(p, ev) ==
    LET p1 == setLastConsensusRound(p, ev.Frame)
        p2 == IF IsLoaded(ev)
              THEN [p1 EXCEPT !.pendingLoadedEvents = @ - 1] ELSE p1
    IN [p2 EXCEPT !.Store = AddConsensusEvent(@, ev),
                  !.ConsensusTransactions = @ + ev.Txs]

\* checkSelfParent: nil, or the error.
checkSelfParent(p, event) ==
    IF event.Creator \notin DOMAIN p.Store.rootsByParticipant
        /\ event.Creator \notin DOMAIN p.Store.participantEventsCache
    THEN "NoRoot"
    ELSE IF event.SelfParent # LastEventFrom(p.Store, event.Creator)
    THEN "self-parent not last known event by creator"
    ELSE "nil"

\* checkOtherParent that takes any entry of the Root under the event's hash.
checkOtherParentAnyOther(p, event) ==
    IF event.OtherParent = ZeroHash \/ HasEvent(p.Store, event.OtherParent)
    THEN "nil"
    ELSE IF event.Hash \in DOMAIN p.Store.rootsByParticipant[event.Creator].Others
         THEN "nil"
         ELSE "other-parent not known"

\* checkOtherParent: nil, or the error.
checkOtherParent(p, event) ==
    IF event.OtherParent = ZeroHash \/ HasEvent(p.Store, event.OtherParent)
    THEN "nil"
    ELSE LET root == p.Store.rootsByParticipant[event.Creator] IN
         IF event.Hash \in DOMAIN root.Others
               /\ root.Others[event.Hash].Hash = event.OtherParent
         THEN "nil"
         ELSE "other-parent not known"

\* setWireInfo: nil, or the error of the first parent lookup that fails.
setWireInfo(p, event) ==
    IF ~HasEvent(p.Store, event.SelfParent) THEN "KeyNotFound"
    ELSE IF ~HasEvent(p.Store, event.OtherParent) THEN "KeyNotFound"
    ELSE "nil"

-----------------------------------------------------------------------------
(* Clotho checking *)

RootTableOf(s, h) == GetEventBlock(s, h).RootTable

\* The entries of a root table that GetClothoCheck finds.
CheckedEntries(s, table) ==
    {k \in DOMAIN table : HasClothoCheck(s, table[k], k)}

\* ccTemp of one previous root: for <<frame, hash>> the number of roots in the
\* previous root's root table whose own root table holds hash at frame.
ccTemp(s, prevRoot, frame, hash) ==
    Cardinality({ppr \in CheckedEntries(s, RootTableOf(s, prevRoot)) :
        LET t == RootTableOf(s, ppr) IN
        /\ hash \in DOMAIN t
        /\ t[hash] = frame
        /\ HasClothoCheck(s, frame, hash)})

SetMax(S) == CHOOSE x \in S : \A y \in S : y <= x

SetMin(S) == CHOOSE x \in S : \A y \in S : x <= y

\* ccList: the largest ccTemp over the previous roots (updateCcList).
ccList(s, e, frame, hash) ==
    LET prev == CheckedEntries(s, e.RootTable) IN
    IF prev = {} THEN 0
    ELSE SetMax({ccTemp(s, pr, frame, hash) : pr \in prev})

\* Every <<frame, hash>> ccTemp counts for some previous root.
ccKeys(s, e) ==
    UNION {UNION {{<<RootTableOf(s, ppr)[h], h>> : h \in DOMAIN RootTableOf(s, ppr)} :
                     ppr \in CheckedEntries(s, RootTableOf(s, pr))} :
              pr \in CheckedEntries(s, e.RootTable)}

\* The roots ClothoChecking(e) decides to be clothos.
NewClothos(s, e) ==
    {k \in ccKeys(s, e) : ccList(s, e, k[1], k[2]) >= GetSuperMajority(s)}

\* A lookup of ClothoChecking that fails with an error other than the
\* KeyNotFound of GetClothoCheck: a checked root that is not in the store.
ClothoCheckingErr(s, e) ==
    LET prev == CheckedEntries(s, e.RootTable) IN
    IF \/ \E pr \in prev : ~HasEvent(s, pr)
       \/ \E pr \in prev :
              \E ppr \in CheckedEntries(s, RootTableOf(s, pr)) : ~HasEvent(s, ppr)
       \/ \E k \in NewClothos(s, e) : ~HasEvent(s, k[2])
    THEN "KeyNotFound" ELSE "nil"

RECURSIVE MarkClothos(_, _, _)
MarkClothos(s, e, keys) ==
    IF keys = {} THEN s
    ELSE LET k == CHOOSE x \in keys : TRUE
             root == GetEventBlock(s, k[2])
             s1 == IF ~root.Clotho
                   THEN SetEvent(s, [root EXCEPT !.Clotho = TRUE]) ELSE s
             s2 == AddTimeTable(s1, e.Hash, root.Hash, e.LamportTimestamp)
         IN MarkClothos(s2, e, keys \ {k})

\* ClothoChecking(e): [p |-> the Poset after the call, err |-> its return].
ClothoChecking(p, e) ==
    IF ClothoCheckingErr(p.Store, e) # "nil"
    THEN [p |-> p, err |-> ClothoCheckingErr(p.Store, e)]
    ELSE [p |-> [p EXCEPT !.Store = MarkClothos(@, e, NewClothos(@, e))],
          err |-> "nil"]

-----------------------------------------------------------------------------
(* Atropos time selection *)

PutEvent(p, ev) == [p EXCEPT !.Store = SetEvent(@, ev)]

\* AssignAtroposTime2(e, frame): [p |-> the Poset after, time |-> the result].
RECURSIVE AssignAtroposTime2(_, _, _)
AssignAtroposTime2(p, e, frame) ==
    LET \* one parent: mark it received, descend if it has no time, store it
        Follow(q, h) ==
            IF ~HasEvent(q.Store, h) THEN q
            ELSE LET parent == GetEventBlock(q.Store, h)
                     par1 == IF parent.FrameReceived = 0
                             THEN [parent EXCEPT !.FrameReceived = frame]
                             ELSE parent
                 IN IF parent.AtroposTimestamp = 0
                    THEN LET r == AssignAtroposTime2(q, par1, frame)
                             par2 == [par1 EXCEPT !.AtroposTimestamp = r.time]
                         IN PutEvent(accountEvent(r.p, par2), par2)
                    ELSE IF parent.FrameReceived = 0 THEN PutEvent(q, par1)
                    ELSE q
        p1 == Follow(p, e.SelfParent)
        p2 == Follow(p1, e.OtherParent)
    IN [p |-> p2,
        time |-> IF HasEvent(p1.Store, e.OtherParent)
                 THEN GetEventBlock(p1.Store, e.OtherParent).LamportTimestamp
                 ELSE e.LamportTimestamp]

\* The root-table entries of e whose time table is missing.
MissingTimeTables(s, e) == {k \in DOMAIN e.RootTable : ~HasTimeTable(s, k)}

\* countMap: for a clotho and a time, the number of previous roots voting it.
CountMapKeys(s, e) ==
    UNION {DOMAIN GetTimeTable(s, k) : k \in DOMAIN e.RootTable}

CountMapTimes(s, e, key) ==
    {GetTimeTable(s, k)[key] :
        k \in {x \in DOMAIN e.RootTable : key \in DOMAIN GetTimeTable(s, x)}}

CountMapGet(s, e, key, time) ==
    Cardinality({k \in DOMAIN e.RootTable :
        key \in DOMAIN GetTimeTable(s, k) /\ GetTimeTable(s, k)[key] = time})

\* The regular vote: the largest count, and the lowest time that has it.
MaxVal(s, e, key) ==
    SetMax({CountMapGet(s, e, key, t) : t \in CountMapTimes(s, e, key)})

MaxInd(s, e, key) ==
    SetMin({t \in CountMapTimes(s, e, key) :
               CountMapGet(s, e, key, t) = MaxVal(s, e, key)})

\* countMap[key]: for each time voted for the clotho, the number of votes.
CountMapVal(s, e, key) ==
    [time \in CountMapTimes(s, e, key) |-> CountMapGet(s, e, key, time)]

\* One iteration of the loop of a coin round: the first time met, then any
\* lower one.
CoinRoundStep(acc, time, count) ==
    IF acc.maxVal = 0 THEN [maxVal |-> count, maxInd |-> time]
    ELSE IF time < acc.maxInd THEN [acc EXCEPT !.maxInd = time]
    ELSE acc

NormalRoundStepLast(acc, time, count) ==
    IF acc.maxVal = 0 \/ count >= acc.maxVal
    THEN [maxVal |-> count, maxInd |-> time]
    ELSE acc

\* One iteration of the loop of a regular round: a larger count, or the same
\* count with a lower time.
NormalRoundStep(acc, time, count) ==
    IF acc.maxVal = 0 \/ count > acc.maxVal
    THEN [maxVal |-> count, maxInd |-> time]
    ELSE IF count = acc.maxVal /\ time < acc.maxInd
    THEN [acc EXCEPT !.maxInd = time]
    ELSE acc

\* for time, count := range val, visiting the times in the order `times`;
\* coin tells which of the two loops runs.
RECURSIVE RangeVal(_, _, _, _)
RangeVal(val, times, coin, acc) ==
    IF times = <<>> THEN acc
    ELSE RangeVal(val, Tail(times), coin,
                  IF coin THEN CoinRoundStep(acc, Head(times), val[Head(times)])
                  ELSE NormalRoundStep(acc, Head(times), val[Head(times)]))

\* One iteration of the loop over countMap, for the clotho visit.key whose
\* times are visited in the order visit.times; votes are read from the store
\* s0 as it was when countMap was built.
AtroposStep(p, s0, e, visit) ==
    IF ~HasEvent(p.Store, visit.key) THEN p
    ELSE LET clotho == GetEventBlock(p.Store, visit.key)
             coin == (e.Frame - clotho.Frame) % CoinInterval = 0
             max == RangeVal(CountMapVal(s0, e, visit.key), visit.times, coin,
                             [maxVal |-> 0, maxInd |-> 0])
         IN
    IF clotho.Atropos THEN p
    ELSE IF coin
    THEN [p EXCEPT !.Store = AddTimeTable(@, e.Hash, visit.key, max.maxInd)]
    ELSE IF max.maxVal >= GetSuperMajority(s0)
    THEN LET c1 == [clotho EXCEPT !.Atropos = TRUE, !.FrameReceived = clotho.Frame]
             p1 == IF c1.AtroposTimestamp = 0 THEN accountEvent(p, c1) ELSE p
             r == AssignAtroposTime2(p1, c1, c1.Frame)
         IN PutEvent(r.p, [c1 EXCEPT !.AtroposTimestamp = r.time])
    ELSE [p EXCEPT !.Store = AddTimeTable(@, e.Hash, visit.key, max.maxInd)]

RECURSIVE AtroposLoop(_, _, _, _)
AtroposLoop(p, s0, e, order) ==
    IF order = <<>> THEN p
    ELSE AtroposLoop(AtroposStep(p, s0, e, Head(order)), s0, e, Tail(order))

\* AtroposTimeSelection(e); order is the order in which the range over
\* countMap visits its keys, each with the order of the range over its times.
AtroposTimeSelection(p, e, order) ==
    IF MissingTimeTables(p.Store, e) # {}
    THEN [p |-> p, err |-> "KeyNotFound"]
    ELSE [p |-> AtroposLoop(p, p.Store, e, order), err |-> "nil"]

-----------------------------------------------------------------------------
(* InsertEvent *)

HasAnyEntry(s, flagTable) == Cardinality(DOMAIN flagTable) >= 1

\* InsertEvent: the merged flag table reaches the supermajority.
HasSuperMajority(s, flagTable) ==
    Cardinality(DOMAIN flagTable) >= GetSuperMajority(s)

\* The frame, root flag and tables InsertEvent computes for an event from
\* its parents; err is the failed lookup of the third branch.
FrameOf(s, event) ==
    LET parentEvent == GetEventBlock(s, event.SelfParent)
        otherParentEvent == GetEventBlock(s, event.OtherParent)
    IN
    IF parentEvent.Frame = otherParentEvent.Frame
    THEN LET flagTable == MergeFlagTable(parentEvent, otherParentEvent.FlagTable,
                                         parentEvent.Frame)
         IN IF HasSuperMajority(s, flagTable)
            THEN [err |-> "nil", Root |-> TRUE, Frame |-> parentEvent.Frame + 1,
                  rootTable |-> flagTable, flagTable |-> NewFlagTable]
            ELSE [err |-> "nil", Root |-> FALSE, Frame |-> parentEvent.Frame,
                  rootTable |-> NewFlagTable, flagTable |-> flagTable]
    ELSE IF parentEvent.Frame > otherParentEvent.Frame
    THEN [err |-> "nil", Root |-> FALSE, Frame |-> parentEvent.Frame,
          rootTable |-> NewFlagTable, flagTable |-> parentEvent.FlagTable]
    ELSE IF ~HasClothoCreatorCheck(s, otherParentEvent.Frame, otherParentEvent.Creator)
    THEN [err |-> "GetClothoCheck", Root |-> TRUE, Frame |-> otherParentEvent.Frame,
          rootTable |-> NewFlagTable, flagTable |-> NewFlagTable]
    ELSE LET otherRoot == GetClothoCreatorCheck(s, otherParentEvent.Frame,
                                                otherParentEvent.Creator)
             otherRootTable == GetEventBlock(s, otherRoot).RootTable
         IN [err |-> "nil", Root |-> TRUE, Frame |-> otherParentEvent.Frame,
             rootTable |-> MergeFlagTable(parentEvent, otherRootTable,
                                          otherParentEvent.Frame - 1),
             flagTable |-> otherParentEvent.FlagTable]

\* The lamport timestamp InsertEvent gives an event that has none.
LamportOf(s, event) ==
    LET plt == GetEventBlock(s, event.SelfParent).LamportTimestamp
        opLT == GetEventBlock(s, event.OtherParent).LamportTimestamp
    IN IF event.LamportTimestamp = LamportTimestampNIL
       THEN (IF opLT > plt THEN opLT ELSE plt) + 1
       ELSE event.LamportTimestamp

NextTopologicalIndex(p) == [p EXCEPT !.topologicalIndex = @ + 1]

\* The end of InsertEvent: the event joins the undetermined events, the
\* loaded events are counted, its block signatures join the pool.
InsertEventTail(p, ev) ==
    [p EXCEPT !.UndeterminedEvents = Append(@, ev.Hash),
              !.pendingLoadedEvents = IF IsLoaded(ev) THEN @ + 1 ELSE @,
              !.SigPool = @ \o ev.BlockSignatures]

\* InsertEvent of a root after AtroposTimeSelection, whose result is at.
InsertEventSelected(at, ev) ==
    IF at.err # "nil" THEN [p |-> at.p, err |-> "AtroposTimeSelection"]
    ELSE [p |-> InsertEventTail(at.p, ev), err |-> "nil"]

\* InsertEvent of a root after ClothoChecking, whose result is cc.
InsertEventChecked(cc, ev, order) ==
    IF cc.err # "nil" THEN [p |-> cc.p, err |-> "CheckClotho"]
    ELSE InsertEventSelected(AtroposTimeSelection(cc.p, ev, order), ev)

\* InsertEvent after SetEvent and SetRoundCreated.
InsertEventStored(p, ev, order) ==
    IF ev.Root
    THEN InsertEventChecked(
             ClothoChecking([p EXCEPT !.Store =
                                AddClothoCheck(@, ev.Frame, ev.Creator, ev.Hash)],
                            ev),
             ev, order)
    ELSE [p |-> InsertEventTail(p, ev), err |-> "nil"]

\* InsertEvent after NextTopologicalIndex.
InsertEventIndexed(p, ev, wire, order) ==
    IF wire /\ setWireInfo(p, ev) # "nil" THEN [p |-> p, err |-> "SetWireInfo"]
    ELSE IF SetEventErr(p.Store, ev) # "nil" THEN [p |-> p, err |-> "SetEvent"]
    ELSE InsertEventStored(
             [p EXCEPT !.Store = SetRoundCreated(SetEvent(@, ev), ev.Frame,
                                                 NewRoundCreated)],
             ev, order)

\* InsertEvent after the frame computation, whose result is f.
InsertEventFramed(p, event, f, wire, order) ==
    IF f.err # "nil" THEN [p |-> p, err |-> f.err]
    ELSE InsertEventIndexed(
             NextTopologicalIndex(p),
             [event EXCEPT !.Root = f.Root, !.Frame = f.Frame,
                           !.FlagTable = IF f.Root
                                         THEN FlagTableSet(f.flagTable, event.Hash,
                                                           f.Frame)
                                         ELSE f.flagTable,
                           !.RootTable = f.rootTable,
                           !.LamportTimestamp = LamportOf(p.Store, event),
                           !.TopologicalIndex = p.topologicalIndex],
             wire, order)

\* InsertEvent(event, setWireInfo): [p |-> the Poset after, err |-> the return].
\* verified is the outcome of event.Verify(); order is the iteration order of
\* AtroposTimeSelection.
InsertEvent(p, event, wire, verified, order) ==
    IF ~verified THEN [p |-> p, err |-> "invalid Event signature"]
    ELSE IF checkSelfParent(p, event) # "nil"
    THEN [p |-> p, err |-> "CheckSelfParent"]
    ELSE IF checkOtherParent(p, event) # "nil"
    THEN [p |-> p, err |-> "CheckOtherParent"]
    ELSE InsertEventFramed(p, event, FrameOf(p.Store, event), wire, order)

-----------------------------------------------------------------------------
(* Rounds, lamport timestamps and dominators, as the pipeline computes them *)

IsRootHash(s, x) ==
    \E c \in DOMAIN s.rootsByParticipant : s.rootsByParticipant[c].SelfParent.Hash = x

RootOfHash(s, x) ==
    LET c == CHOOSE c \in DOMAIN s.rootsByParticipant :
                 s.rootsByParticipant[c].SelfParent.Hash = x
    IN s.rootsByParticipant[c]

Fail == [err |-> "KeyNotFound", val |-> 0]

Ok(v) == [err |-> "nil", val |-> v]

\* round2 (the round cache holds what round2 returned)
RECURSIVE round(_, _)
round(s, x) ==
    IF IsRootHash(s, x) THEN Ok(RootOfHash(s, x).SelfParent.Round)
    ELSE IF ~HasEvent(s, x) THEN Fail
    ELSE LET ex == GetEventBlock(s, x)
             root == s.rootsByParticipant[ex.Creator]
         IN
    IF /\ ex.SelfParent = root.SelfParent.Hash
       /\ \/ ex.OtherParent = ZeroHash
          \/ (x \in DOMAIN root.Others /\ root.Others[x].Hash = ex.OtherParent)
    THEN Ok(root.NextRound)
    ELSE LET spRound == round(s, ex.SelfParent)
             opRound == round(s, ex.OtherParent)
             parentRound == IF opRound.val > spRound.val THEN opRound.val
                            ELSE spRound.val
         IN
    IF spRound.err # "nil" THEN Fail
    ELSE IF opRound.err # "nil" THEN Fail
    ELSE IF parentRound = FrameNIL THEN Ok(0)
    ELSE IF Cardinality(DOMAIN ex.FlagTable) >= GetSuperMajority(s)
            /\ 1 >= GetSuperMajority(s)
    THEN Ok(parentRound + 1)
    ELSE Ok(parentRound)

\* clotho: x is the first event of its round for its creator.
clotho(s, x) ==
    IF ~HasEvent(s, x) THEN Fail
    ELSE LET xRound == round(s, x)
             spRound == round(s, GetEventBlock(s, x).SelfParent)
         IN IF xRound.err # "nil" \/ spRound.err # "nil" THEN Fail
            ELSE Ok(xRound.val > spRound.val)

\* lamportTimestamp2 (the timestamp cache holds what it returned)
RECURSIVE lamportTimestamp(_, _)
lamportTimestamp(s, x) ==
    IF IsRootHash(s, x) THEN Ok(RootOfHash(s, x).SelfParent.LamportTimestamp)
    ELSE IF ~HasEvent(s, x) THEN Fail
    ELSE LET ex == GetEventBlock(s, x)
             root == s.rootsByParticipant[ex.Creator]
             spLT == IF ex.SelfParent = root.SelfParent.Hash
                     THEN Ok(root.SelfParent.LamportTimestamp)
                     ELSE lamportTimestamp(s, ex.SelfParent)
             opLT == IF ex.OtherParent = ZeroHash THEN Ok(spLT.val)
                     ELSE IF HasEvent(s, ex.OtherParent)
                     THEN lamportTimestamp(s, ex.OtherParent)
                     ELSE IF x \in DOMAIN root.Others
                             /\ root.Others[x].Hash = ex.OtherParent
                     THEN Ok(root.Others[x].LamportTimestamp)
                     ELSE Ok(spLT.val)
         IN IF spLT.err # "nil" THEN Fail
            ELSE IF opLT.err # "nil" THEN Fail
            ELSE Ok((IF opLT.val > spLT.val THEN opLT.val ELSE spLT.val) + 1)

\* dominator2: y is a dominator of x.
RECURSIVE dominator(_, _, _)
dominator(s, x, y) ==
    IF x = y THEN Ok(TRUE)
    ELSE IF ~HasEvent(s, x)
    THEN Ok(\E c \in DOMAIN s.rootsByParticipant :
                LET others == s.rootsByParticipant[c].Others
                IN y \in DOMAIN others /\ others[y].Hash = x)
    ELSE LET ex == GetEventBlock(s, x)
             xlt == lamportTimestamp(s, x)
             ylt == lamportTimestamp(s, y)
             res == dominator(s, ex.SelfParent, y)
         IN
    IF xlt.err # "nil" \/ ylt.err # "nil" THEN [err |-> "KeyNotFound", val |-> FALSE]
    ELSE IF ylt.val - xlt.val > 0 THEN Ok(FALSE)
    ELSE IF ~HasEvent(s, y) /\ ~IsRootHash(s, y) THEN Ok(FALSE)
    ELSE IF ~HasEvent(s, y) /\ ex.Creator = RootOfHash(s, y).SelfParent.CreatorID
    THEN Ok(ex.Index >= RootOfHash(s, y).SelfParent.Index)
    ELSE IF HasEvent(s, y) /\ ex.Creator = GetEventBlock(s, y).Creator
    THEN Ok(ex.Index >= GetEventBlock(s, y).Index)
    ELSE IF res.err # "nil" THEN res
    ELSE IF res.val THEN Ok(TRUE)
    ELSE dominator(s, ex.OtherParent, y)

-----------------------------------------------------------------------------
(* DivideRounds *)

\* The body of the loop of DivideRounds for one undetermined event.
DivideEvent(p, hash) ==
    LET s == p.Store
        ev == GetEventBlock(s, hash)
        roundNumber == round(s, hash)
        isClotho == clotho(s, hash)
        roundCreated == GetRoundCreated(s, roundNumber.val)
        queue == ~roundCreated.Queued /\ roundNumber.val >= GetLastConsensusRound(p)
        rc1 == AddRoundEvent([roundCreated EXCEPT !.Queued = @ \/ queue],
                             hash, isClotho.val)
        p1 == IF queue
              THEN [p EXCEPT !.PendingRounds =
                        Append(@, [Index |-> roundNumber.val, Decided |-> FALSE])]
              ELSE p
        \* after the round part
        p2 == IF ev.Frame = FrameNIL
              THEN [p1 EXCEPT !.Store = SetRoundCreated(@, roundNumber.val, rc1)]
              ELSE p
        ev2 == IF ev.Frame = FrameNIL THEN [ev EXCEPT !.Frame = roundNumber.val]
               ELSE ev
        lt == lamportTimestamp(s, hash)
        ev3 == IF ev.LamportTimestamp = LamportTimestampNIL
               THEN [ev2 EXCEPT !.LamportTimestamp = lt.val] ELSE ev2
    IN
    IF ~HasEvent(s, hash) THEN [p |-> p, err |-> "KeyNotFound"]
    ELSE IF ev.Frame = FrameNIL /\ roundNumber.err # "nil"
    THEN [p |-> p, err |-> roundNumber.err]
    ELSE IF ev.Frame = FrameNIL /\ isClotho.err # "nil"
    THEN [p |-> p1, err |-> isClotho.err]
    ELSE IF ev.LamportTimestamp = LamportTimestampNIL /\ lt.err # "nil"
    THEN [p |-> p2, err |-> lt.err]
    ELSE IF ev.Frame = FrameNIL \/ ev.LamportTimestamp = LamportTimestampNIL
    THEN [p |-> PutEvent(p2, ev3), err |-> "nil"]
    ELSE [p |-> p2, err |-> "nil"]

RECURSIVE DivideLoop(_, _)
DivideLoop(p, hashes) ==
    IF hashes = <<>> THEN [p |-> p, err |-> "nil"]
    ELSE LET r == DivideEvent(p, Head(hashes)) IN
         IF r.err # "nil" THEN r ELSE DivideLoop(r.p, Tail(hashes))

\* DivideRounds(): [p |-> the Poset after, err |-> the return].
DivideRounds(p) == DivideLoop(p, p.UndeterminedEvents)

-----------------------------------------------------------------------------
(* DecideRoundReceived *)

\* The atropos of a round that dominate x; err if a dominator lookup fails.
DominatingAtropos(s, tr, x) ==
    {w \in RoundAtropos(tr) : dominator(s, w, x).val}

DominatedErr(s, tr, x) ==
    \E w \in RoundAtropos(tr) : dominator(s, w, x).err # "nil"

\* The loop over the rounds after r for the undetermined event x, from i on:
\* "received" at round i, "reset" (received without a round), "none", or "err".
RECURSIVE ScanRounds(_, _, _, _)
ScanRounds(p, x, r, i) ==
    LET s == p.Store
        tr == GetRoundCreated(s, i)
    IN
    IF i > s.lastRound THEN [kind |-> "none", i |-> i]
    ELSE IF ~HasRoundCreated(s, i)
    THEN (IF r < GetLastConsensusRound(p) THEN [kind |-> "reset", i |-> i]
          ELSE [kind |-> "err", i |-> i])
    ELSE IF ~ClothoDecided(tr) THEN [kind |-> "none", i |-> i]
    ELSE IF DominatedErr(s, tr, x) THEN [kind |-> "err", i |-> i]
    ELSE IF RoundAtropos(tr) # {} /\ DominatingAtropos(s, tr, x) = RoundAtropos(tr)
    THEN [kind |-> "received", i |-> i]
    ELSE ScanRounds(p, x, r, i + 1)

\* The event x is received at round i: it and the round are stored.
ReceiveAt(s, x, i) ==
    SetRoundReceived(SetEvent(s, [GetEventBlock(s, x) EXCEPT !.FrameReceived = i]),
                     i, Append(GetRoundReceived(s, i), x))

\* ReceiveOne that leaves an event that is not received out of the new queue.
ReceiveOneDropped(acc, x, scan) ==
    IF scan.kind = "err" THEN [acc EXCEPT !.err = "KeyNotFound"]
    ELSE IF scan.kind = "received"
    THEN [acc EXCEPT !.p.Store = ReceiveAt(@, x, scan.i),
                     !.pending = @ \cup {scan.i}]
    ELSE acc

\* acc after the undetermined event x, whose scan of the rounds gave scan.
ReceiveOne(acc, x, scan) ==
    IF scan.kind = "err" THEN [acc EXCEPT !.err = "KeyNotFound"]
    ELSE IF scan.kind = "received"
    THEN [acc EXCEPT !.p.Store = ReceiveAt(@, x, scan.i),
                     !.pending = @ \cup {scan.i}]
    ELSE IF scan.kind = "reset" THEN acc
    ELSE [acc EXCEPT !.undetermined = Append(@, x)]

\* acc after the undetermined event x, whose round is r.
ReceiveRound(acc, x, r) ==
    IF r.err # "nil" THEN [acc EXCEPT !.err = r.err]
    ELSE ReceiveOne(acc, x, ScanRounds(acc.p, x, r.val, r.val + 1))

\* The loop over the undetermined events; acc: [p, undetermined, pending, err].
\* The round of the event and acc after the event are each computed once.
RECURSIVE ReceiveLoop(_, _)
ReceiveLoop(acc, hashes) ==
    IF hashes = <<>> \/ acc.err # "nil" THEN acc
    ELSE CHOOSE v \in {ReceiveLoop(a, Tail(hashes)) :
                         a \in {ReceiveRound(acc, Head(hashes), rr) :
                                   rr \in {round(acc.p.Store, Head(hashes))}}} : TRUE

\* sort.Sort of an Int64Slice
RECURSIVE SortInt64Slice(_)
SortInt64Slice(q) ==
    IF q = <<>> THEN <<>>
    ELSE LET m == SetMin({q[k] : k \in DOMAIN q})
             k0 == CHOOSE k \in DOMAIN q : q[k] = m
         IN <<m>> \o SortInt64Slice([k \in 1..(Len(q) - 1) |->
                                 IF k < k0 THEN q[k] ELSE q[k + 1]])

RECURSIVE SetToSeq(_)
SetToSeq(S) ==
    IF S = {} THEN <<>> ELSE <<SetMin(S)>> \o SetToSeq(S \ {SetMin(S)})

\* The end of DecideRoundReceived, acc being the result of its loop.
DecideRoundReceivedEnd(acc) ==
    IF acc.err # "nil" THEN [p |-> acc.p, err |-> acc.err]
    ELSE [p |-> [acc.p EXCEPT
                    !.PendingRoundReceived = SortInt64Slice(@ \o SetToSeq(acc.pending)),
                    !.UndeterminedEvents = acc.undetermined],
          err |-> "nil"]

\* DecideRoundReceived(): [p |-> the Poset after, err |-> the return].
DecideRoundReceived(p) ==
    DecideRoundReceivedEnd(
        ReceiveLoop([p |-> p, undetermined |-> <<>>, pending |-> {}, err |-> "nil"],
                    p.UndeterminedEvents))

-----------------------------------------------------------------------------
(* ProcessDecidedRounds and the commit channel *)

\* FinalBlock with the index the loop over decided rounds uses.
FinalBlockAfterLastBlock(p, frame) ==
    [Index |-> p.Store.lastBlock + 1, RoundReceived |-> frame,
     Transactions |-> ProcessOutFrame(p.Store, frame), Signatures |-> {}]

\* The block the finality loop builds for a frame.
FinalBlock(p, frame) ==
    [Index |-> frame, RoundReceived |-> frame,
     Transactions |-> ProcessOutFrame(p.Store, frame), Signatures |-> {}]

\* The exclusive or of two naturals, bit by bit.
RECURSIVE Xor(_, _)
Xor(a, b) ==
    IF a = 0 THEN b
    ELSE IF b = 0 THEN a
    ELSE ((a + b) % 2) + 2 * Xor(a \div 2, b \div 2)

\* The signature <<R, S>> of an event as the one integer the sort compares.
SignatureXor(e) == Xor(e.Signature[1], e.Signature[2])

\* A digest of a flag table: one bit per creator of a root the table holds.
RECURSIVE BitSum(_)
BitSum(S) == IF S = {} THEN 0 ELSE LET c == SetMin(S) IN 2 ^ c + BitSum(S \ {c})

FlagTableHash(ft) == BitSum({h[1] : h \in DOMAIN ft})

\* ByLamportTimestamp.Less: the consensus timestamp, then the lamport
\* timestamp, then the signature; the flag table is not compared.
ByLamportTimestampLess(a, b) ==
    IF a.AtroposTimestamp # b.AtroposTimestamp
    THEN a.AtroposTimestamp < b.AtroposTimestamp
    ELSE IF a.LamportTimestamp # b.LamportTimestamp
    THEN a.LamportTimestamp < b.LamportTimestamp
    ELSE SignatureXor(a) < SignatureXor(b)

\* sort.Stable(ByLamportTimestamp(events)): of the events no other event is
\* less than, the first is placed first.
RECURSIVE SortByLamport(_)
SortByLamport(events) ==
    IF events = <<>> THEN <<>>
    ELSE LET k0 == SetMin({k \in DOMAIN events :
                             \A j \in DOMAIN events :
                                 ~ByLamportTimestampLess(events[j], events[k])})
         IN <<events[k0]>> \o
            SortByLamport([k \in 1..(Len(events) - 1) |->
                              IF k < k0 THEN events[k] ELSE events[k + 1]])

\* statedb.GetBalance: the balance of an account, 0 for one that does not exist.
GetBalance(st, addr) == IF addr \in DOMAIN st THEN st[addr] ELSE 0

\* statedb.SubBalance and AddBalance, on unsigned words.
SubBalance(st, addr, amount) ==
    [a \in DOMAIN st \cup {addr} |->
        IF a = addr THEN (GetBalance(st, a) - amount) % UintRange ELSE st[a]]

AddBalance(st, addr, amount) ==
    [a \in DOMAIN st \cup {addr} |->
        IF a = addr THEN (GetBalance(st, a) + amount) % UintRange ELSE st[a]]

\* statedb.CreateAccount: a new account with balance 0.
CreateAccount(st, addr) == [a \in DOMAIN st \cup {addr} |-> IF a = addr THEN 0 ELSE st[a]]

\* The body of the loop without the test of the sender's balance.
ApplyInternalTransactionUnfunded(st, sender, tx) ==
    IF tx.Type # "POS_TRANSFER" THEN st
    ELSE AddBalance(IF tx.Peer \in DOMAIN SubBalance(st, sender, tx.Amount)
                    THEN SubBalance(st, sender, tx.Amount)
                    ELSE CreateAccount(SubBalance(st, sender, tx.Amount), tx.Peer),
                    tx.Peer, tx.Amount)

\* ApplyInternalTransactions, the body of the loop over the transactions of
\* an event: the state after the transaction tx of the sender.
ApplyInternalTransaction(st, sender, tx) ==
    IF tx.Type # "POS_TRANSFER" THEN st
    ELSE IF GetBalance(st, sender) < tx.Amount THEN st
    ELSE AddBalance(IF tx.Peer \in DOMAIN SubBalance(st, sender, tx.Amount)
                    THEN SubBalance(st, sender, tx.Amount)
                    ELSE CreateAccount(SubBalance(st, sender, tx.Amount), tx.Peer),
                    tx.Peer, tx.Amount)

RECURSIVE ApplyTransactions(_, _, _)
ApplyTransactions(st, sender, txs) ==
    IF txs = <<>> THEN st
    ELSE ApplyTransactions(ApplyInternalTransaction(st, sender, Head(txs)),
                           sender, Tail(txs))

\* ApplyInternalTransactions, the loop over the ordered events; the events
\* of a creator that is not a participant are skipped.
RECURSIVE ApplyEvents(_, _, _)
ApplyEvents(participants, st, events) ==
    IF events = <<>> THEN st
    ELSE ApplyEvents(participants,
                     IF Head(events).Creator \in participants
                     THEN ApplyTransactions(st, Head(events).Creator,
                                            Head(events).InternalTransactions)
                     ELSE st,
                     Tail(events))

\* ApplyInternalTransactions(round, orderedEvents): [err, hash]; the hash of
\* a state stands for the state.
ApplyInternalTransactions(p, r, orderedEvents) ==
    IF r <= 0
    THEN [err |-> "empty round is not allowed", hash |-> <<>>]
    ELSE IF r # 1 /\ ~HasFrame(p.Store, r - 1)
    THEN [err |-> "KeyNotFound", hash |-> <<>>]
    ELSE [err |-> "nil",
          hash |-> ApplyEvents(p.Store.participants,
                               IF r = 1 THEN p.Store.stateRoot
                               ELSE p.Store.frameCache[r - 1].StateHash,
                               orderedEvents)]

\* MakeFrame, from the sorted events on.
MakeFrameSorted(p, roundReceived, events, applied) ==
    IF applied.err # "nil"
    THEN [p |-> p, err |-> applied.err,
          frame |-> [Round |-> roundReceived, Events |-> events, StateHash |-> <<>>]]
    ELSE [p |-> [p EXCEPT !.Store =
                    SetFrame(@, [Round |-> roundReceived, Events |-> events,
                                 StateHash |-> applied.hash])],
          err |-> "nil",
          frame |-> [Round |-> roundReceived, Events |-> events,
                     StateHash |-> applied.hash]]

MakeFrameEvents(p, roundReceived, events) ==
    MakeFrameSorted(p, roundReceived, events,
                    ApplyInternalTransactions(p, roundReceived, events))

\* MakeFrame(roundReceived): [p, err, frame]
MakeFrame(p, roundReceived) ==
    IF \/ ~HasRoundReceived(p.Store, roundReceived)
       \/ \E k \in DOMAIN GetRoundReceived(p.Store, roundReceived) :
              ~HasEvent(p.Store, GetRoundReceived(p.Store, roundReceived)[k])
    THEN [p |-> p, err |-> "KeyNotFound",
          frame |-> [Round |-> roundReceived, Events |-> <<>>, StateHash |-> <<>>]]
    ELSE MakeFrameEvents(p, roundReceived,
             SortByLamport([k \in DOMAIN GetRoundReceived(p.Store, roundReceived) |->
                 GetEventBlock(p.Store, GetRoundReceived(p.Store, roundReceived)[k])]))

GetFrame(p, roundReceived) ==
    IF HasFrame(p.Store, roundReceived)
    THEN [p |-> p, err |-> "nil", frame |-> p.Store.frameCache[roundReceived]]
    ELSE MakeFrame(p, roundReceived)

RECURSIVE SumTxs(_)
SumTxs(events) ==
    IF events = <<>> THEN 0 ELSE Head(events).Txs + SumTxs(Tail(events))

\* NewBlockFromFrame: the transactions of the frame's events, in order.
NewBlockFromFrame(index, frame) ==
    [Index |-> index, RoundReceived |-> frame.Round,
     Transactions |-> SumTxs(frame.Events), Signatures |-> {}]

\* The accounting of the events of a frame in the loop over decided rounds.
RECURSIVE CommitFrameEvents(_, _)
CommitFrameEvents(p, events) ==
    IF events = <<>> THEN p
    ELSE LET ev == Head(events)
             p1 == [p EXCEPT !.Store = AddConsensusEvent(@, ev),
                             !.ConsensusTransactions = @ + ev.Txs,
                             !.pendingLoadedEvents =
                                 IF IsLoaded(ev) THEN @ - 1 ELSE @]
         IN CommitFrameEvents(p1, Tail(events))

\* The round r becomes the last consensus round if it is later.
AdvanceLastConsensusRound(p, r) ==
    IF GetLastConsensusRound(p) < 0 \/ r > GetLastConsensusRound(p)
    THEN setLastConsensusRound(p, r) ELSE p

\* The iteration for the round r once the events of its frame are accounted
\* in p and its block is built.
DecidedBlock(p, r, block) ==
    IF block.Transactions > 0
    THEN [p |-> AdvanceLastConsensusRound([p EXCEPT !.Store = SetBlock(@, block)], r),
          err |-> "nil", send |-> p.hasCommitCh, block |-> block]
    ELSE [p |-> AdvanceLastConsensusRound(p, r), err |-> "nil", send |-> FALSE,
          block |-> block]

\* The iteration for the round r once the events of its frame are accounted.
DecidedEvents(p, r, frame) ==
    DecidedBlock(p, r, NewBlockFromFrame(p.Store.lastBlock + 1, frame))

\* The iteration for the round r, f being the result of GetFrame.
DecidedFrame(f, r) ==
    IF f.err # "nil"
    THEN [p |-> f.p, err |-> f.err, send |-> FALSE,
          block |-> NewBlockFromFrame(0, f.frame)]
    ELSE IF f.frame.Events = <<>>
    THEN [p |-> AdvanceLastConsensusRound(f.p, r), err |-> "nil", send |-> FALSE,
          block |-> NewBlockFromFrame(0, f.frame)]
    ELSE DecidedEvents(CommitFrameEvents(f.p, f.frame.Events), r, f.frame)

\* One iteration of the loop over PendingRoundReceived, for the round r:
\* [p, err, send, block]; send says the iteration sends block on the channel.
DecidedRound(p, r) == DecidedFrame(GetFrame(p, r), r)

\* The deferred function of ProcessDecidedRounds: the processed rounds leave
\* the queues.
TrimQueues(p, processedIndex) ==
    IF processedIndex = 0 THEN p
    ELSE LET lastProcessedRound == p.PendingRoundReceived[processedIndex]
             found == {i \in DOMAIN p.PendingRounds :
                          p.PendingRounds[i].Index = lastProcessedRound}
         IN [p EXCEPT !.PendingRounds =
                          IF found = {} THEN @
                          ELSE SubSeq(@, SetMin(found) + 1, Len(@)),
                      !.PendingRoundReceived =
                          SubSeq(@, processedIndex + 1, Len(@))]

-----------------------------------------------------------------------------
(* ProcessSigPool. A block signature is [Validator, Index, Signature]; the *)
(* signatures of a block are the set of the validators that signed it.     *)

HasBlock(s, index) == index \in DOMAIN s.blockCache

setAnchorBlock(p, i) == [p EXCEPT !.AnchorBlock = <<i>>]

\* Block.SetSignature: the signature of the validator joins the block.
SetSignature(block, bs) == [block EXCEPT !.Signatures = @ \cup {bs.Validator}]

\* The end of the loop body with an anchor set at the trust count already.
SigCountedFromTrustCount(p, block) ==
    IF /\ Cardinality(block.Signatures) >= GetTrustCount(p.Store)
       /\ (p.AnchorBlock = <<>> \/ block.Index > p.AnchorBlock[1])
    THEN setAnchorBlock(p, block.Index)
    ELSE p

\* ProcessSigPool, the end of the loop body: the block with the new
\* signature is stored; it becomes the anchor when it holds more signatures
\* than the trust count and lies above the anchor.
SigCounted(p, block) ==
    IF /\ Cardinality(block.Signatures) > GetTrustCount(p.Store)
       /\ (p.AnchorBlock = <<>> \/ block.Index > p.AnchorBlock[1])
    THEN setAnchorBlock(p, block.Index)
    ELSE p

SigAttached(p, block) ==
    SigCounted([p EXCEPT !.Store = SetBlock(@, block)], block)

\* ProcessSigPool, the loop body for the signature at position i (from 0):
\* acc is [p, processed, err].
SigAt(acc, i, bs) ==
    IF bs.Validator \notin acc.p.Store.participants THEN acc
    ELSE IF acc.p.AnchorBlock # <<>> /\ bs.Index <= acc.p.AnchorBlock[1]
    THEN [acc EXCEPT !.processed = @ \cup {i}]
    ELSE IF ~HasBlock(acc.p.Store, bs.Index) THEN acc
    ELSE IF bs.Signature = "malformed" THEN [acc EXCEPT !.err = "Verify"]
    ELSE IF bs.Signature = "invalid" THEN acc
    ELSE [acc EXCEPT !.p = SigAttached(acc.p,
                               SetSignature(acc.p.Store.blockCache[bs.Index], bs)),
                     !.processed = @ \cup {i}]

\* The loop over the SigPool; it ends at the first error.
RECURSIVE SigLoop(_, _)
SigLoop(acc, i) ==
    IF i >= Len(acc.p.SigPool) \/ acc.err # "nil" THEN acc
    ELSE SigLoop(SigAt(acc, i, acc.p.SigPool[i + 1]), i + 1)

\* removeProcessedSignatures: a signature is dropped when the index of its
\* block is among the processed positions.
removeProcessedSignatures(p, processedSignatures) ==
    [p EXCEPT !.SigPool =
        SelectSeq(@, LAMBDA bs : bs.Index \notin processedSignatures)]

ProcessSigPoolEnd(acc) ==
    [p |-> removeProcessedSignatures(acc.p, acc.processed), err |-> acc.err,
     processed |-> acc.processed]

\* ProcessSigPool(): [p, err, processed], processed being the positions the
\* pass marked.
ProcessSigPool(p) ==
    ProcessSigPoolEnd(SigLoop([p |-> p, processed |-> {}, err |-> "nil"], 0))

-----------------------------------------------------------------------------
(* Reset *)

\* InmemStore.Reset(roots): the roots are replaced and the event, round,
\* clotho and time-table caches emptied; the blocks and frames stay.
StoreReset(s, roots) ==
    [s EXCEPT !.rootsByParticipant = roots,
              !.eventCache = [h \in {} |-> ZeroEvent],
              !.roundCreatedCache = [r \in {} |-> NewRoundCreated],
              !.roundReceivedCache = [r \in {} |-> <<>>],
              !.clothoCheckCache = {},
              !.clothoCheckCreatorCache = [k \in {} |-> ZeroHash],
              !.timeTableCache = [h \in {} |-> NewFlagTable],
              !.consensusCache = <<>>,
              !.participantEventsCache = [c \in DOMAIN @ |-> EmptyIndex],
              !.lastRound = -1,
              !.lastBlock = -1]

\* Reset, the loop that inserts the events of the frame: [p, err].
RECURSIVE ResetEvents(_, _)
ResetEvents(r, events) ==
    IF events = <<>> \/ r.err # "nil" THEN r
    ELSE ResetEvents(InsertEvent(r.p, Head(events), FALSE, TRUE, <<>>), Tail(events))

\* Reset, from the cleared Poset on.
ResetCleared(p, block, frame) ==
    ResetEvents([p |-> setLastConsensusRound(
                          [p EXCEPT !.Store = SetBlock(StoreReset(@, frame.Roots), block)],
                          block.RoundReceived),
                 err |-> "nil"],
                frame.Events)

\* Reset(block, frame): [p, err]
Reset(p, block, frame) ==
    ResetCleared([p EXCEPT !.LastConsensusRound = <<>>,
                           !.FirstConsensusRound = <<>>,
                           !.AnchorBlock = <<>>,
                           !.UndeterminedEvents = <<>>,
                           !.PendingRounds = <<>>,
                           !.pendingLoadedEvents = 0,
                           !.topologicalIndex = 0],
                 block, frame)

Idle == [pc |-> "idle", pos |-> 0, processedIndex |-> 0]

\* DecidedLocker is held from the Lock of a call to its return.
DecidedLockerHeld == \E c \in Callers : pdr[c].pc = "final"

\* A send on the commit channel proceeds when the channel has room.
CanSendAlways(ch) == TRUE

CanSend(ch) == Len(ch) < ChanCap

-----------------------------------------------------------------------------
(* The state machine *)

StoredHashes == DOMAIN poset.Store.eventCache

\* The hash of an incoming event: its creator, its index and the number of
\* events with that creator and index the store already holds.
HashOf(c, i) ==
    <<c, i, Cardinality({h \in StoredHashes : h[1] = c /\ h[2] = i})>>

Init ==
    /\ \E ch \in BOOLEAN :
           poset = [NewPoset(NewInmemStore(Peers)) EXCEPT !.hasCommitCh = ch]
    /\ commitCh = <<>>
    /\ received = <<>>
    /\ pdr = [c \in Callers |-> Idle]

\* The calls InsertEvent(event, setWireInfo) offered in the current state:
\* [event, wire, verified]. An event the signature check or the self-parent
\* check rejects is offered with its other fields fixed.
Offered ==
    UNION {UNION {
        LET early == ~cv[2] \/ sp # LastEventFrom(poset.Store, cv[1])
            indices == IF early THEN {0} ELSE 0..MaxIndex
            payloads == IF early THEN {0} ELSE Payloads
            wires == IF early THEN {FALSE} ELSE BOOLEAN
            others == IF early THEN {ZeroHash}
                      ELSE StoredHashes \cup {ZeroHash, UnknownHash}
        IN {[event |-> NewEvent(HashOf(cv[1], x[1]), cv[1], x[1], sp, x[4], x[2], <<>>),
             wire |-> x[3], verified |-> cv[2]] :
               x \in indices \X payloads \X wires \X others} :
        sp \in StoredHashes \cup {GenRootSelfParent(cv[1])}} :
        cv \in poset.Store.participants \X BOOLEAN}

\* A call InsertEvent(event, setWireInfo).
DoInsertEvent ==
    /\ Cardinality(StoredHashes) < MaxEvents
    /\ poset.topologicalIndex < MaxTopologicalIndex
    /\ \E in \in Offered :
         \E r \in {InsertEvent(poset, in.event, in.wire, in.verified, <<>>)} :
           poset' = r.p
    /\ UNCHANGED <<commitCh, received, pdr>>

\* A call DivideRounds().
DoDivideRounds ==
    \E r \in {DivideRounds(poset)} :
    /\ poset' = r.p
    /\ UNCHANGED <<commitCh, received, pdr>>

\* A call DecideRoundReceived().
DoDecideRoundReceived ==
    \E r \in {DecideRoundReceived(poset)} :
    /\ poset' = r.p
    /\ UNCHANGED <<commitCh, received, pdr>>

\* A goroutine calls ProcessDecidedRounds and waits for DecidedLocker.
PDRCall(c) ==
    /\ pdr[c].pc = "idle"
    /\ pdr' = [pdr EXCEPT ![c].pc = "lock"]
    /\ UNCHANGED <<poset, commitCh, received>>

\* ProcessDecidedRounds: the call takes DecidedLocker.
PDRLock(c) ==
    /\ pdr[c].pc = "lock"
    /\ ~DecidedLockerHeld
    /\ pdr' = [pdr EXCEPT ![c].pc = "final"]
    /\ UNCHANGED <<poset, commitCh, received>>

\* ProcessDecidedRounds returns: the deferred calls run, the lock is released.
PDRReturn(c, p, err) ==
    /\ poset' = TrimQueues(p, pdr[c].processedIndex)
    /\ pdr' = [pdr EXCEPT ![c] = Idle]
    /\ UNCHANGED <<commitCh, received>>

\* ProcessDecidedRounds: one iteration of the finality loop, or of the loop
\* over PendingRoundReceived; a send blocks while the channel is full.
PDRStep(c) ==
    /\ pdr[c].pc = "final"
    /\ IF CheckFrameFinality(poset.Store, poset.nextFinalFrame)
       THEN /\ poset.nextFinalFrame < MaxFinalFrame
            /\ IF poset.hasCommitCh
               THEN /\ CanSend(commitCh)
                    /\ commitCh' = Append(commitCh,
                                          FinalBlock(poset, poset.nextFinalFrame))
               ELSE UNCHANGED commitCh
            /\ poset' = [poset EXCEPT !.nextFinalFrame = @ + 1]
            /\ UNCHANGED <<received, pdr>>
       ELSE IF pdr[c].pos + 1 > Len(poset.PendingRoundReceived)
       THEN PDRReturn(c, poset, "nil")
       ELSE \E r \in {poset.PendingRoundReceived[pdr[c].pos + 1]} :
            IF poset.LastConsensusRound # <<>> /\ r > poset.LastConsensusRound[1] + 1
            THEN PDRReturn(c, poset, "nil")
            ELSE IF r = GetLastConsensusRound(poset)
            THEN /\ pdr' = [pdr EXCEPT ![c].pos = @ + 1]
                 /\ UNCHANGED <<poset, commitCh, received>>
            ELSE \E d \in {DecidedRound(poset, r)} :
                 IF d.err # "nil" THEN PDRReturn(c, d.p, d.err)
                 ELSE /\ d.send => CanSend(commitCh)
                      /\ commitCh' = IF d.send THEN Append(commitCh, d.block)
                                     ELSE commitCh
                      /\ poset' = d.p
                      /\ pdr' = [pdr EXCEPT ![c].pos = @ + 1,
                                            ![c].processedIndex = @ + 1]
                      /\ UNCHANGED received

\* The application takes a block from the commit channel.
Receive ==
    /\ commitCh # <<>>
    /\ received' = Append(received, Head(commitCh))
    /\ commitCh' = Tail(commitCh)
    /\ UNCHANGED <<poset, pdr>>

Next ==
    \/ DoInsertEvent
    \/ DoDivideRounds
    \/ DoDecideRoundReceived
    \/ \E c \in Callers : PDRCall(c)
    \/ \E c \in Callers : PDRLock(c)
    \/ \E c \in Callers : PDRStep(c)
    \/ Receive

Spec == Init /\ [][Next]_vars

\* The pipeline is executed again and again: a pass of DivideRounds or
\* DecideRoundReceived, a step of ProcessDecidedRounds or a receive that
\* stays possible is eventually taken.
Fairness ==
    /\ WF_vars(DoDivideRounds)
    /\ WF_vars(DoDecideRoundReceived)
    /\ \A c \in Callers :
           WF_vars(PDRCall(c)) /\ WF_vars(PDRLock(c)) /\ WF_vars(PDRStep(c))
    /\ WF_vars(Receive)

SpecLive == Init /\ [][Next]_vars /\ Fairness

-----------------------------------------------------------------------------
(* MakeFrame as a function of the round-received lists and their events:   *)
(* the lists, the fields the sort compares and the internal transactions   *)
(* are drawn from bounded sets, and GetFrame is applied round by round.    *)

FrameTimestamps == {0, 1}

FrameSignatures == {<<1, 2>>, <<3, 1>>, <<0, 1>>}

FrameFlagTables == {NewFlagTable, [h \in {<<2, 0, 0>>} |-> 0]}

FrameTransactions ==
    {<<>>,
     <<[Type |-> "POS_TRANSFER", Peer |-> 2, Amount |-> 1]>>,
     <<[Type |-> "POS_TRANSFER", Peer |-> 3, Amount |-> 3]>>,
     <<[Type |-> "POS_TRANSFER", Peer |-> 1, Amount |-> UintRange - 1]>>,
     <<[Type |-> "PEER_ADD", Peer |-> 3, Amount |-> 1]>>}

\* A consensus event of a round-received list.
FrameEvent(h, at, lt, ft, sig, txs) ==
    [ZeroEvent EXCEPT !.Hash = h, !.Creator = h[1], !.Index = h[2],
                      !.SelfParent = GenRootSelfParent(h[1]),
                      !.AtroposTimestamp = at, !.LamportTimestamp = lt,
                      !.FlagTable = ft, !.Signature = sig,
                      !.InternalTransactions = txs, !.FrameReceived = 1]

\* The store that holds the events of the sequence evs, the first two of
\* them received in round 1 (in the order first) and the third in round 2.
FrameStore(evs, first) ==
    LET s0 == NewInmemStore(Peers)
        s1 == [s0 EXCEPT !.eventCache =
                  [h \in {evs[k].Hash : k \in DOMAIN evs} |->
                      CHOOSE e \in {evs[k] : k \in DOMAIN evs} : e.Hash = h]]
    IN SetRoundReceived(SetRoundReceived(s1, 1, first), 2, <<evs[3].Hash>>)

InitFrame ==
    /\ \E at \in [1..2 -> FrameTimestamps], lt \in [1..2 -> FrameTimestamps],
          ft \in [1..2 -> FrameFlagTables], sig \in [1..2 -> FrameSignatures],
          txs \in [1..3 -> FrameTransactions],
          first \in {<<<<1, 0, 0>>, <<2, 0, 0>>>>, <<<<2, 0, 0>>, <<1, 0, 0>>>>} :
          /\ sig[1] # sig[2]
          /\ poset = NewPoset(FrameStore(
                 <<FrameEvent(<<1, 0, 0>>, at[1], lt[1], ft[1], sig[1], txs[1]),
                   FrameEvent(<<2, 0, 0>>, at[2], lt[2], ft[2], sig[2], txs[2]),
                   FrameEvent(<<1, 1, 0>>, 0, 0, NewFlagTable, <<0, 0>>, txs[3])>>,
                 first))
    /\ commitCh = <<>>
    /\ received = <<>>
    /\ pdr = [c \in Callers |-> Idle]

\* A call GetFrame(roundReceived).
DoGetFrame ==
    /\ \E roundReceived \in 0..MaxRound :
         \E f \in {GetFrame(poset, roundReceived)} : poset' = f.p
    /\ UNCHANGED <<commitCh, received, pdr>>

SpecFrame == InitFrame /\ [][DoGetFrame]_vars

-----------------------------------------------------------------------------
(* A Poset of three validators that is reset to a block and a frame, takes *)
(* events that carry block signatures, and processes its signature pool.   *)

Validators == {1, 2, 3}

\* The block signatures events carry: of a validator on the blocks 0 and 1,
\* of a key that is no participant, one that does not verify and one
\* that cannot be decoded.
PoolSignatures ==
    {[Validator |-> 1, Index |-> 0, Signature |-> "valid"],
     [Validator |-> 1, Index |-> 1, Signature |-> "valid"],
     [Validator |-> 9, Index |-> 0, Signature |-> "valid"],
     [Validator |-> 2, Index |-> 1, Signature |-> "invalid"],
     [Validator |-> 2, Index |-> 0, Signature |-> "malformed"]}

\* The blocks a Poset is reset to: the anchor block of a peer, with the
\* signatures it had gathered.
ResetBlocks ==
    {[Index |-> i, RoundReceived |-> i, Transactions |-> 0, Signatures |-> sg] :
        i \in 0..1, sg \in {{}, {3}}}

\* A Root of creator c that lists, under the hash of the creator's first
\* event, the other-parent of that event.
RootWithOthers(c) ==
    [NewBaseRoot(c) EXCEPT
        !.Others = [h \in {<<c, 0, 0>>} |->
                       [Hash |-> UnknownHash, LamportTimestamp |-> 0]]]

\* The frames a Poset is reset to: [Roots, Events].
ResetFrames ==
    {[Roots |-> [c \in Validators |-> IF c \in w THEN RootWithOthers(c)
                                      ELSE NewBaseRoot(c)],
      Events |-> evs] :
        w \in {{}, {1}},
        evs \in {<<>>,
                 <<NewEvent(<<1, 0, 0>>, 1, 0, GenRootSelfParent(1),
                            UnknownHash, 0, <<>>)>>}}

\* The frames of base Roots without events.
BaseFrames ==
    {f \in ResetFrames :
        f.Events = <<>> /\ \A c \in Validators : f.Roots[c] = NewBaseRoot(c)}

InitReset ==
    /\ poset = NewPoset(NewInmemStore(Validators))
    /\ commitCh = <<>>
    /\ received = <<>>
    /\ pdr = [c \in Callers |-> Idle]

\* A call Reset(block, frame) with a block and a frame of the given sets.
DoReset(blocks, frames) ==
    /\ \E block \in blocks, frame \in frames :
         \E r \in {Reset(poset, block, frame)} : poset' = r.p
    /\ UNCHANGED <<commitCh, received, pdr>>

\* The events offered to a Poset after a Reset: the next event of a
\* creator, with or without an other-parent the store never saw.
OfferedOther ==
    {NewEvent(HashOf(x[1], x[2]), x[1], x[2], LastEventFrom(poset.Store, x[1]),
              x[3], 0, <<>>) :
        x \in {1, 2} \X (0..MaxIndex)
               \X {ZeroHash, UnknownHash, OtherUnknownHash}}

\* A call InsertEvent(event, false) after a Reset.
DoInsertOther ==
    /\ Cardinality(StoredHashes) < MaxEvents
    /\ poset.topologicalIndex < MaxTopologicalIndex
    /\ \E event \in OfferedOther :
         \E r \in {InsertEvent(poset, event, FALSE, TRUE, <<>>)} : poset' = r.p
    /\ UNCHANGED <<commitCh, received, pdr>>

NextReset ==
    \/ DoReset(ResetBlocks, ResetFrames)
    \/ DoInsertOther

SpecReset == InitReset /\ [][NextReset]_vars

\* The events offered to a Poset that gathers block signatures: a first
\* event of creator 1 that carries at most one block signature.
OfferedSigned ==
    {NewEvent(HashOf(1, 0), 1, 0, LastEventFrom(poset.Store, 1), ZeroHash, 0, sigs) :
        sigs \in {<<>>} \cup {<<bs>> : bs \in PoolSignatures}}

\* A call InsertEvent(event, false) with a signed event.
DoInsertSigned ==
    /\ Cardinality(StoredHashes) < MaxEvents
    /\ poset.topologicalIndex < MaxTopologicalIndex
    /\ \E event \in OfferedSigned :
         /\ Len(poset.SigPool) + Len(event.BlockSignatures) <= MaxSigPool
         /\ \E r \in {InsertEvent(poset, event, FALSE, TRUE, <<>>)} : poset' = r.p
    /\ UNCHANGED <<commitCh, received, pdr>>

\* A call ProcessSigPool().
DoProcessSigPool ==
    /\ \E r \in {ProcessSigPool(poset)} : poset' = r.p
    /\ UNCHANGED <<commitCh, received, pdr>>

NextSigPool ==
    \/ DoReset(ResetBlocks, BaseFrames)
    \/ DoInsertSigned
    \/ DoProcessSigPool

SpecSigPool == InitReset /\ [][NextSigPool]_vars

-----------------------------------------------------------------------------
(* InsertEvent and ProcessSigPool in two goroutines. No lock guards the    *)
(* SigPool: the append of InsertEvent and the replacement in               *)
(* removeProcessedSignatures each read the field and write it later.       *)

\* InsertEvent up to the append to the SigPool, which has read the field.
InsertAppendRead(c) ==
    /\ pdr[c].pc = "idle"
    /\ Cardinality(StoredHashes) < MaxEvents
    /\ poset.topologicalIndex < MaxTopologicalIndex
    /\ \E event \in OfferedSigned :
         /\ Len(poset.SigPool) + Len(event.BlockSignatures) <= MaxSigPool
         /\ \E r \in {InsertEvent(poset, event, FALSE, TRUE, <<>>)} :
              /\ poset' = [r.p EXCEPT !.SigPool = poset.SigPool]
              /\ pdr' = IF r.err # "nil" THEN pdr
                        ELSE [pdr EXCEPT ![c] =
                                 [pc |-> "append",
                                  pool |-> poset.SigPool \o event.BlockSignatures]]
    /\ UNCHANGED <<commitCh, received>>

\* InsertEvent: the appended slice is written to p.SigPool; the call returns.
InsertAppendWrite(c) ==
    /\ pdr[c].pc = "append"
    /\ poset' = [poset EXCEPT !.SigPool = pdr[c].pool]
    /\ pdr' = [pdr EXCEPT ![c] = Idle]
    /\ UNCHANGED <<commitCh, received>>

\* ProcessSigPool: the loop over the SigPool, up to the deferred call.
SigPoolLoop(c) ==
    /\ pdr[c].pc = "idle"
    /\ \E acc \in {SigLoop([p |-> poset, processed |-> {}, err |-> "nil"], 0)} :
         /\ poset' = acc.p
         /\ pdr' = [pdr EXCEPT ![c] = [pc |-> "remove", processed |-> acc.processed]]
    /\ UNCHANGED <<commitCh, received>>

\* removeProcessedSignatures: its loop over p.SigPool builds newSigPool.
RemoveRead(c) ==
    /\ pdr[c].pc = "remove"
    /\ pdr' = [pdr EXCEPT ![c] =
                  [pc |-> "assign",
                   pool |-> removeProcessedSignatures(poset, pdr[c].processed).SigPool]]
    /\ UNCHANGED <<poset, commitCh, received>>

\* removeProcessedSignatures: p.SigPool = newSigPool; ProcessSigPool returns.
RemoveWrite(c) ==
    /\ pdr[c].pc = "assign"
    /\ poset' = [poset EXCEPT !.SigPool = pdr[c].pool]
    /\ pdr' = [pdr EXCEPT ![c] = Idle]
    /\ UNCHANGED <<commitCh, received>>

\* One goroutine inserts events, the other processes the pool.
NextRace ==
    \/ InsertAppendRead(1)
    \/ InsertAppendWrite(1)
    \/ SigPoolLoop(2)
    \/ RemoveRead(2)
    \/ RemoveWrite(2)

SpecRace == InitReset /\ [][NextRace]_vars

-----------------------------------------------------------------------------
(* The locks DivideRounds and DecideRoundReceived hold while they call the *)
(* store. A goroutine is at pc, holds the Poset locks in held and, inside  *)
(* a method of the store, the store locks in store.                        *)

Unlocked == [pc |-> "idle", held |-> {}, store |-> {}]

InitLocks ==
    /\ poset = NewPoset(NewInmemStore(Peers))
    /\ commitCh = <<>>
    /\ received = <<>>
    /\ pdr = [c \in Callers |-> Unlocked]

\* No goroutine holds one of the locks.
Free(locks) ==
    \A c \in Callers : (pdr[c].held \cup pdr[c].store) \cap locks = {}

\* InsertEvent; it takes undeterminedEventsLocker for its append.
InsertLocked ==
    /\ Free({"undeterminedEventsLocker.Lock", "undeterminedEventsLocker.RLock"})
    /\ DoInsertEvent

\* DivideRounds: undeterminedEventsLocker.RLock(), released on return.
DivideRoundsLock(c) ==
    /\ pdr[c].pc = "idle"
    /\ Free({"undeterminedEventsLocker.Lock"})
    /\ pdr' = [pdr EXCEPT ![c].pc = "DivideRounds",
                          ![c].held = {"undeterminedEventsLocker.RLock"}]
    /\ UNCHANGED <<poset, commitCh, received>>

\* DivideRounds: the loop over the undetermined events and the return.
DivideRoundsReturn(c) ==
    /\ pdr[c].pc = "DivideRounds"
    /\ \E r \in {DivideRounds(poset)} : poset' = r.p
    /\ pdr' = [pdr EXCEPT ![c] = Unlocked]
    /\ UNCHANGED <<commitCh, received>>

\* DecideRoundReceived: undeterminedEventsLocker.Lock(), released on return.
DecideRoundReceivedLock(c) ==
    /\ pdr[c].pc = "idle"
    /\ Free({"undeterminedEventsLocker.Lock", "undeterminedEventsLocker.RLock"})
    /\ pdr' = [pdr EXCEPT ![c].pc = "DecideRoundReceived",
                          ![c].held = {"undeterminedEventsLocker.Lock"}]
    /\ UNCHANGED <<poset, commitCh, received>>

\* DecideRoundReceived: for an undetermined event whose round is known, the
\* loop over the rounds calls Store.LastRound, which takes lastRoundLocker.
DecideRoundReceivedLastRound(c) ==
    /\ pdr[c].pc = "DecideRoundReceived"
    /\ poset.UndeterminedEvents # <<>>
    /\ round(poset.Store, poset.UndeterminedEvents[1]).err = "nil"
    /\ Free({"lastRoundLocker.Lock"})
    /\ pdr' = [pdr EXCEPT ![c].pc = "LastRound",
                          ![c].store = {"lastRoundLocker.RLock"}]
    /\ UNCHANGED <<poset, commitCh, received>>

\* DecideRoundReceived: the rest of the call and its return.
DecideRoundReceivedReturn(c) ==
    /\ pdr[c].pc \in {"DecideRoundReceived", "LastRound"}
    /\ \E r \in {DecideRoundReceived(poset)} : poset' = r.p
    /\ pdr' = [pdr EXCEPT ![c] = Unlocked]
    /\ UNCHANGED <<commitCh, received>>

NextLocks ==
    \/ InsertLocked
    \/ \E c \in Callers : DivideRoundsLock(c)
    \/ \E c \in Callers : DivideRoundsReturn(c)
    \/ \E c \in Callers : DecideRoundReceivedLock(c)
    \/ \E c \in Callers : DecideRoundReceivedLastRound(c)
    \/ \E c \in Callers : DecideRoundReceivedReturn(c)

SpecLocks == InitLocks /\ [][NextLocks]_vars

-----------------------------------------------------------------------------
(* The LRU caches of the Poset. round and lamportTimestamp answer from     *)
(* roundCache and timestampCache when the hash is present and add what     *)
(* round2 and lamportTimestamp2 return; `received` holds the two caches.   *)

EmptyCache == [h \in {} |-> 0]

NoCaches == [roundCache |-> EmptyCache, timestampCache |-> EmptyCache]

\* lru Add: the entry of x is v.
CacheAdd(cache, x, v) ==
    [h \in DOMAIN cache \cup {x} |-> IF h = x THEN v ELSE cache[h]]

\* Poset.round over the round cache: [err, val, cache].
RECURSIVE roundCached(_, _, _)
roundCached(s, cache, x) ==
    IF x \in DOMAIN cache THEN [err |-> "nil", val |-> cache[x], cache |-> cache]
    ELSE IF IsRootHash(s, x)
    THEN [err |-> "nil", val |-> RootOfHash(s, x).SelfParent.Round,
          cache |-> CacheAdd(cache, x, RootOfHash(s, x).SelfParent.Round)]
    ELSE IF ~HasEvent(s, x) THEN [err |-> "KeyNotFound", val |-> -1, cache |-> cache]
    ELSE LET ex == GetEventBlock(s, x)
             root == s.rootsByParticipant[ex.Creator]
             spRound == roundCached(s, cache, ex.SelfParent)
             opRound == roundCached(s, spRound.cache, ex.OtherParent)
             parentRound == IF opRound.val > spRound.val THEN opRound.val
                            ELSE spRound.val
             r == IF parentRound = FrameNIL THEN 0
                  ELSE IF Cardinality(DOMAIN ex.FlagTable) >= GetSuperMajority(s)
                          /\ 1 >= GetSuperMajority(s)
                  THEN parentRound + 1
                  ELSE parentRound
         IN
    IF /\ ex.SelfParent = root.SelfParent.Hash
       /\ \/ ex.OtherParent = ZeroHash
          \/ (x \in DOMAIN root.Others /\ root.Others[x].Hash = ex.OtherParent)
    THEN [err |-> "nil", val |-> root.NextRound,
          cache |-> CacheAdd(cache, x, root.NextRound)]
    ELSE IF spRound.err # "nil"
    THEN [err |-> "KeyNotFound", val |-> -1, cache |-> spRound.cache]
    ELSE IF opRound.err # "nil"
    THEN [err |-> "KeyNotFound", val |-> -1, cache |-> opRound.cache]
    ELSE [err |-> "nil", val |-> r, cache |-> CacheAdd(opRound.cache, x, r)]

\* Poset.lamportTimestamp over the timestamp cache: [err, val, cache].
RECURSIVE lamportTimestampCached(_, _, _)
lamportTimestampCached(s, cache, x) ==
    IF x \in DOMAIN cache THEN [err |-> "nil", val |-> cache[x], cache |-> cache]
    ELSE IF IsRootHash(s, x)
    THEN [err |-> "nil", val |-> RootOfHash(s, x).SelfParent.LamportTimestamp,
          cache |-> CacheAdd(cache, x, RootOfHash(s, x).SelfParent.LamportTimestamp)]
    ELSE IF ~HasEvent(s, x) THEN [err |-> "KeyNotFound", val |-> -1, cache |-> cache]
    ELSE LET ex == GetEventBlock(s, x)
             root == s.rootsByParticipant[ex.Creator]
             spLT == IF ex.SelfParent = root.SelfParent.Hash
                     THEN [err |-> "nil", val |-> root.SelfParent.LamportTimestamp,
                           cache |-> cache]
                     ELSE lamportTimestampCached(s, cache, ex.SelfParent)
             opLT == IF ex.OtherParent = ZeroHash THEN spLT
                     ELSE IF HasEvent(s, ex.OtherParent)
                     THEN lamportTimestampCached(s, spLT.cache, ex.OtherParent)
                     ELSE IF x \in DOMAIN root.Others
                             /\ root.Others[x].Hash = ex.OtherParent
                     THEN [spLT EXCEPT !.val = root.Others[x].LamportTimestamp]
                     ELSE spLT
             plt == IF opLT.val > spLT.val THEN opLT.val ELSE spLT.val
         IN
    IF spLT.err # "nil"
    THEN [err |-> "KeyNotFound", val |-> -1, cache |-> spLT.cache]
    ELSE IF opLT.err # "nil"
    THEN [err |-> "KeyNotFound", val |-> -1, cache |-> opLT.cache]
    ELSE [err |-> "nil", val |-> plt + 1, cache |-> CacheAdd(opLT.cache, x, plt + 1)]

\* Reset, the caches it replaces by new ones.
ResetCaches(caches) == [caches EXCEPT !.roundCache = EmptyCache]

InitCache ==
    /\ poset = NewPoset(NewInmemStore(Validators))
    /\ commitCh = <<>>
    /\ received = NoCaches
    /\ pdr = [c \in Callers |-> Idle]

\* The block a Poset with caches is reset to.
CacheBlocks == {b \in ResetBlocks : b.Index = 0 /\ b.Signatures = {}}

\* A call Reset(block, frame) of a Poset with caches.
DoResetCached ==
    /\ \E block \in CacheBlocks, frame \in ResetFrames :
         \E r \in {Reset(poset, block, frame)} : poset' = r.p
    /\ received' = ResetCaches(received)
    /\ UNCHANGED <<commitCh, pdr>>

\* A call round(x) for a stored event.
DoRound ==
    /\ \E x \in StoredHashes :
         \E r \in {roundCached(poset.Store, received.roundCache, x)} :
            received' = [received EXCEPT !.roundCache = r.cache]
    /\ UNCHANGED <<poset, commitCh, pdr>>

\* A call lamportTimestamp(x) for a stored event.
DoLamportTimestamp ==
    /\ \E x \in StoredHashes :
         \E r \in {lamportTimestampCached(poset.Store, received.timestampCache, x)} :
            received' = [received EXCEPT !.timestampCache = r.cache]
    /\ UNCHANGED <<poset, commitCh, pdr>>

NextCache ==
    \/ DoResetCached
    \/ DoInsertOther
    \/ DoRound
    \/ DoLamportTimestamp

SpecCache == InitCache /\ [][NextCache]_vars

-----------------------------------------------------------------------------
(* GrpcDAG1Proxy: SubmitTx and listenEvents send and receive over one      *)
(* stream and reconnect through the reconnect ticket. `poset` holds the    *)
(* proxy, `received` the clock and the server, `commitCh` the transactions *)
(* the server has taken, `pdr` the two goroutines. A stream carries the    *)
(* number of the server start it was connected to.                         *)

Goroutines == {"SubmitTx", "listenEvents"}

ZeroTime == 0

NewGrpcDAG1Proxy(now) ==
    [stream |-> 0, reconnectTicket |-> <<now>>, shutdown |-> FALSE,
     connClosed |-> FALSE]

\* stream.Send and stream.Recv work while the stream is the one of the
\* running server.
StreamAlive ==
    /\ ~poset.connClosed
    /\ poset.stream # 0
    /\ poset.stream = received.server

\* The head of the loop in sendToServer and recvFromServer.
LoopHead(g) == IF g = "SubmitTx" THEN "streamSend" ELSE "streamRecv"

\* sendToServer and recvFromServer leave their loop with the error of
\* reConnect.
sendToServerGivesUp(err) == err # "nil"

sendToServerReturns(err) == err = "ErrConnShutdown"

\* The goroutine after reConnect has returned err.
AfterReConnect(g, err) ==
    [pdr[g] EXCEPT !.disconnTime = 0, !.connectTime = 0,
                   !.pc = IF ~sendToServerReturns(err) THEN LoopHead(g)
                          ELSE IF g = "SubmitTx" THEN "idle" ELSE "done",
                   !.ret = IF ~sendToServerReturns(err) THEN @ ELSE err]

InitProxy ==
    /\ poset = NewGrpcDAG1Proxy(1)
    /\ commitCh = <<>>
    /\ received = [now |-> 1, server |-> 0, started |-> 0]
    /\ pdr = [g \in Goroutines |->
                 [pc |-> IF g = "SubmitTx" THEN "idle" ELSE "streamRecv",
                  disconnTime |-> 0, connectTime |-> 0, tx |-> 0,
                  ret |-> "nil", issuedAt |-> 0]]

\* A call SubmitTx(tx); the transactions are numbered by call.
SubmitTx ==
    /\ pdr["SubmitTx"].pc = "idle"
    /\ pdr["SubmitTx"].tx < MaxCalls
    /\ pdr' = [pdr EXCEPT !["SubmitTx"] =
                  [@ EXCEPT !.pc = "streamSend", !.tx = @ + 1, !.ret = "nil",
                            !.issuedAt = received.started]]
    /\ UNCHANGED <<poset, commitCh, received>>

\* streamSend: the server takes the message, or the send fails.
StreamSend ==
    /\ pdr["SubmitTx"].pc = "streamSend"
    /\ IF StreamAlive
       THEN /\ commitCh' = Append(commitCh, pdr["SubmitTx"].tx)
            /\ pdr' = [pdr EXCEPT !["SubmitTx"].pc = "idle",
                                  !["SubmitTx"].ret = "nil"]
       ELSE /\ pdr' = [pdr EXCEPT !["SubmitTx"].pc = "reConnect"]
            /\ UNCHANGED commitCh
    /\ UNCHANGED <<poset, received>>

\* streamRecv fails; on a stream of the running server it blocks.
StreamRecv ==
    /\ pdr["listenEvents"].pc = "streamRecv"
    /\ ~StreamAlive
    /\ pdr' = [pdr EXCEPT !["listenEvents"].pc = "reConnect"]
    /\ UNCHANGED <<poset, commitCh, received>>

\* reConnect: disconnTime := time.Now()
ReConnectNow(g) ==
    /\ pdr[g].pc = "reConnect"
    /\ pdr' = [pdr EXCEPT ![g].pc = "ticket", ![g].disconnTime = received.now]
    /\ UNCHANGED <<poset, commitCh, received>>

\* reConnect: the receive from reconnectTicket and the two early returns.
ReConnectTicket(g) ==
    /\ pdr[g].pc = "ticket"
    /\ poset.reconnectTicket # <<>>
    /\ \E connectTime \in {poset.reconnectTicket[1]} :
         IF connectTime = ZeroTime
         THEN /\ pdr' = [pdr EXCEPT ![g] = AfterReConnect(g, "ErrConnShutdown")]
              /\ UNCHANGED poset
         ELSE IF pdr[g].disconnTime < connectTime
         THEN /\ pdr' = [pdr EXCEPT ![g] = AfterReConnect(g, "nil")]
              /\ UNCHANGED poset
         ELSE /\ pdr' = [pdr EXCEPT ![g].pc = "select",
                                    ![g].connectTime = connectTime]
              /\ poset' = [poset EXCEPT !.reconnectTicket = <<>>]
    /\ UNCHANGED <<commitCh, received>>

\* reConnect: the select on shutdown and the call of client.Connect.
\* closeErr is the result of conn.Close().
ReConnectConnect(g) ==
    /\ pdr[g].pc = "select"
    /\ IF poset.shutdown
       THEN /\ poset' = [poset EXCEPT !.connClosed = TRUE,
                                      !.reconnectTicket = <<ZeroTime>>]
            /\ \E closeErr \in {"nil", "conn.Close() err"} :
                 pdr' = [pdr EXCEPT ![g] =
                            AfterReConnect(g, IF closeErr # "nil" THEN closeErr
                                              ELSE "ErrConnShutdown")]
       ELSE IF received.server # 0
       THEN /\ poset' = [poset EXCEPT !.stream = received.server,
                                      !.reconnectTicket = <<received.now>>]
            /\ pdr' = [pdr EXCEPT ![g] = AfterReConnect(g, "nil")]
       ELSE /\ poset' = [poset EXCEPT !.reconnectTicket = <<pdr[g].connectTime>>]
            /\ pdr' = [pdr EXCEPT ![g] = AfterReConnect(g, "rpc Connect() err")]
    /\ UNCHANGED <<commitCh, received>>

\* Close
Close ==
    /\ ~poset.shutdown
    /\ poset' = [poset EXCEPT !.shutdown = TRUE]
    /\ UNCHANGED <<commitCh, received, pdr>>

\* The server goes away.
ServerStop ==
    /\ received.server # 0
    /\ received' = [received EXCEPT !.server = 0]
    /\ UNCHANGED <<poset, commitCh, pdr>>

\* A server is started at the address of the proxy.
ServerStart ==
    /\ received.server = 0
    /\ received.started < MaxServers
    /\ received' = [received EXCEPT !.server = received.started + 1,
                                    !.started = @ + 1]
    /\ UNCHANGED <<poset, commitCh, pdr>>

\* Time passes.
Tick ==
    /\ received.now < MaxTime
    /\ received' = [received EXCEPT !.now = @ + 1]
    /\ UNCHANGED <<poset, commitCh, pdr>>

NextProxy ==
    \/ SubmitTx
    \/ StreamSend
    \/ StreamRecv
    \/ \E g \in Goroutines : ReConnectNow(g) \/ ReConnectTicket(g) \/ ReConnectConnect(g)
    \/ Close
    \/ ServerStop
    \/ ServerStart
    \/ Tick

\* Each goroutine that can take a step takes one.
FairnessProxy ==
    /\ WF_vars(StreamSend)
    /\ WF_vars(StreamRecv)
    /\ \A g \in Goroutines :
          WF_vars(ReConnectNow(g)) /\ WF_vars(ReConnectTicket(g))
             /\ WF_vars(ReConnectConnect(g))

SpecProxy == InitProxy /\ [][NextProxy]_vars /\ FairnessProxy

-----------------------------------------------------------------------------
(* GrpcDAG1Proxy with a server that sends: listenEvents takes a block, a   *)
(* snapshot query or a restore request from the stream and hands it to the *)
(* application over the channel of its kind.                               *)

\* The channels of the proxy; a listener whose pc is a channel is at the
\* send on that channel.
Channels == {"commitCh", "queryCh", "restoreCh"}

\* reConnect closes the three channels where it closes the connection.
ChannelsClosed(p) == p.connClosed

\* streamRecv returns an event of the server for the channel ch.
StreamRecvEvent(ch) ==
    /\ pdr["listenEvents"].pc = "streamRecv"
    /\ StreamAlive
    /\ pdr' = [pdr EXCEPT !["listenEvents"].pc = ch]
    /\ UNCHANGED <<poset, commitCh, received>>

\* The application receives from the channel ch: the send of listenEvents
\* returns and the loop goes on.
ChannelReceive(ch) ==
    /\ pdr["listenEvents"].pc = ch
    /\ ~ChannelsClosed(poset)
    /\ pdr' = [pdr EXCEPT !["listenEvents"].pc = "streamRecv"]
    /\ UNCHANGED <<poset, commitCh, received>>

NextListen ==
    \/ NextProxy
    \/ \E ch \in Channels : StreamRecvEvent(ch)
    \/ \E ch \in Channels : ChannelReceive(ch)

SpecListen == InitProxy /\ [][NextListen]_vars

-----------------------------------------------------------------------------
(* KnownEvents of the two stores. The Badger store answers LastEventFrom,  *)
(* GetRoot and GetEventBlock as the in-memory store does for the same      *)
(* content.                                                                *)

\* ParticipantEventsCache.Known: the last index per participant, -1 if none
Known(s) ==
    [c \in s.participants |->
        IF s.participantEventsCache[c].Items = <<>> THEN -1
        ELSE LastIndex(s.participantEventsCache[c])]

\* InmemStore.KnownEvents
InmemKnownEvents(s) ==
    [c \in s.participants |->
        IF Known(s)[c] = -1 /\ c \in DOMAIN s.rootsByParticipant
        THEN s.rootsByParticipant[c].SelfParent.Index
        ELSE Known(s)[c]]

\* InmemStore.GetRoot, its error.
GetRootErr(s, c) ==
    IF c \in DOMAIN s.rootsByParticipant THEN "nil" ELSE "KeyNotFound"

\* BadgerStore.KnownEvents; the index stays -1 unless a branch assigns it,
\* and a Root that GetRoot did not find is the zero Root.
BadgerKnownEvents(s) ==
    [c \in s.participants |->
        IF s.participantEventsCache[c].Items = <<>>
        THEN IF c \notin DOMAIN s.rootsByParticipant THEN -1
             ELSE IF GetRootErr(s, c) # "nil" THEN 0
             ELSE -1
        ELSE IF HasEvent(s, LastEventFrom(s, c))
        THEN GetEventBlock(s, LastEventFrom(s, c)).Index
        ELSE -1]

\* A Root whose self-parent is an event of the creator, with the index,
\* that the store does not hold.
RootAfter(c, index) ==
    [NewBaseRoot(c) EXCEPT !.SelfParent.Index = index,
                           !.SelfParent.Hash = <<c, index, 2>>,
                           !.SelfParent.LamportTimestamp = index,
                           !.SelfParent.Round = 0]

\* The frames a store is reset to: base Roots, or Roots after an event.
KnownFrames ==
    {[Roots |-> [c \in Validators |-> IF c \in w THEN RootAfter(c, i)
                                      ELSE NewBaseRoot(c)],
      Events |-> <<>>] : w \in SUBSET {1, 2}, i \in 0..MaxIndex}

NextKnown ==
    \/ DoReset(CacheBlocks, KnownFrames)
    \/ DoInsertOther

SpecKnown == InitReset /\ [][NextKnown]_vars

-----------------------------------------------------------------------------
(* InsertEvent as a function of the store: the store holds, for every      *)
(* validator, a leaf event of frame 0 that is a root with the flag table   *)
(* of a root, and takes events whose parents are stored events.            *)

\* The leaf event of a creator: a root of frame 0.
LeafRoot(c) ==
    [NewEvent(<<c, 0, 0>>, c, 0, GenRootSelfParent(c), ZeroHash, 0, <<>>)
        EXCEPT !.Root = TRUE, !.Frame = 0, !.LamportTimestamp = 0,
               !.TopologicalIndex = c - 1,
               !.FlagTable = [h \in {<<c, 0, 0>>} |-> 0]]

\* The store after the leaf events of the creators cs.
RECURSIVE LeafStore(_, _)
LeafStore(s, cs) ==
    IF cs = {} THEN s
    ELSE LET c == SetMin(cs)
         IN LeafStore(AddClothoCheck(SetRoundCreated(SetEvent(s, LeafRoot(c)), 0,
                                                     NewRoundCreated),
                                     0, c, <<c, 0, 0>>),
                      cs \ {c})

InitInsert ==
    /\ poset = [NewPoset(LeafStore(NewInmemStore(Validators), Validators))
                   EXCEPT !.topologicalIndex = Cardinality(Validators),
                          !.UndeterminedEvents =
                              [c \in 1..Cardinality(Validators) |-> <<c, 0, 0>>]]
    /\ commitCh = <<>>
    /\ received = <<>>
    /\ pdr = [c \in Callers |-> Idle]

\* The events offered: the next event of a creator, with no other-parent
\* or with a stored event of another creator as other-parent.
OfferedParents ==
    UNION {{NewEvent(HashOf(c, LastIndex(poset.Store.participantEventsCache[c]) + 1),
                     c, LastIndex(poset.Store.participantEventsCache[c]) + 1,
                     LastEventFrom(poset.Store, c), op, 0, <<>>) :
               op \in {ZeroHash} \cup {h \in StoredHashes : h[1] # c}} :
           c \in Validators}

\* A call InsertEvent(event, false).
DoInsertParents ==
    /\ Cardinality(StoredHashes) < Cardinality(Validators) + MaxInserted
    /\ \E event \in OfferedParents :
         \E r \in {InsertEvent(poset, event, FALSE, TRUE, <<>>)} : poset' = r.p
    /\ UNCHANGED <<commitCh, received, pdr>>

SpecInsert == InitInsert /\ [][DoInsertParents]_vars

-----------------------------------------------------------------------------
(* DecideAtropos for one undecided clotho x of round 0, as a function of   *)
(* what dominated and strictlyDominated answer. The clothos of round j are *)
(* two hashes; the middle component of a hash is its middle byte. `poset`  *)
(* holds the votes for x, the decision and the position of the two loops.  *)

\* DecideAtropos: c := 11
DecideCoinInterval == 11

RoundClothos(j) == <<<<1, 0, j>>, <<2, 1, j>>>>

\* randomShift: false for a hash whose middle byte is 0
randomShift(hash) ==
    ~(hash # ZeroHash /\ hash[Len(hash) \div 2 + 1] = 0)

\* votes[w][x] of a Go map: false for a missing key.
VoteOf(votes, w) == w \in DOMAIN votes /\ votes[w]

setVote(votes, y, vote) ==
    [w \in DOMAIN votes \cup {y} |-> IF w = y THEN vote ELSE votes[w]]

\* The vote of y of round j for x and the decision taken with it, from the
\* clothos of round j - 1 that y strictly dominates: [vote, decided, yays, nays].
CountVotes(votes, y, diff, ssClotho, supermajority) ==
    LET yays == Cardinality({w \in ssClotho : VoteOf(votes, w)})
        nays == Cardinality({w \in ssClotho : ~VoteOf(votes, w)})
        v == yays >= nays
        t == IF yays >= nays THEN yays ELSE nays
    IN [yays |-> yays, nays |-> nays,
        decided |-> diff % DecideCoinInterval > 0 /\ t >= supermajority,
        vote |-> IF diff % DecideCoinInterval > 0 \/ t >= supermajority THEN v
                 ELSE randomShift(y)]

InitDecide ==
    /\ poset = [votes |-> [w \in {} |-> FALSE], decided |-> FALSE,
                atropos |-> FALSE, j |-> 1, pos |-> 1,
                last |-> [y |-> ZeroHash, diff |-> 0, yays |-> 0, nays |-> 0]]
    /\ commitCh = <<>>
    /\ received = <<>>
    /\ pdr = [c \in Callers |-> Idle]

\* One pass of the loop over the clothos y of round j: ycx is the answer of
\* dominated(y, x), ssClotho the clothos w for which strictlyDominated(y, w).
DecideAtroposVote ==
    /\ ~poset.decided
    /\ poset.j <= MaxGap
    /\ \E ycx \in BOOLEAN,
          ssClotho \in SUBSET {RoundClothos(poset.j - 1)[k] : k \in 1..2} :
         \E y \in {RoundClothos(poset.j)[poset.pos]} :
         \E r \in {CountVotes(poset.votes, y, poset.j, ssClotho,
                              GetSuperMajority([participants |-> Peers]))} :
            poset' =
               [votes |-> setVote(poset.votes, y,
                                  IF poset.j = 1 THEN ycx ELSE r.vote),
                decided |-> poset.j # 1 /\ r.decided,
                atropos |-> IF poset.j # 1 /\ r.decided THEN r.vote
                            ELSE poset.atropos,
                j |-> IF poset.pos = 2 THEN poset.j + 1 ELSE poset.j,
                pos |-> IF poset.pos = 2 THEN 1 ELSE 2,
                last |-> IF poset.j = 1
                         THEN [y |-> y, diff |-> 1, yays |-> 0, nays |-> 0]
                         ELSE [y |-> y, diff |-> poset.j, yays |-> r.yays,
                               nays |-> r.nays]]
    /\ UNCHANGED <<commitCh, received, pdr>>

SpecDecide == InitDecide /\ [][DecideAtroposVote]_vars

-----------------------------------------------------------------------------
(* InsertEvent over round records that have content: the Poset of the leaf *)
(* events after the leaf events were registered in round 0 and the round   *)
(* was queued, as DivideRounds registers an event whose round it computes. *)

\* The record of round 0 with the leaf events, those of cs being clothos.
LeafRound(cs) ==
    [Queued |-> TRUE,
     Events |-> [h \in {<<c, 0, 0>> : c \in Validators} |->
                    [Clotho |-> h[1] \in cs, Atropos |-> "UNDEFINED"]]]

InitRounds ==
    /\ \E cs \in SUBSET Validators :
         poset = [NewPoset(SetRoundCreated(
                               LeafStore(NewInmemStore(Validators), Validators),
                               0, LeafRound(cs)))
                     EXCEPT !.topologicalIndex = Cardinality(Validators),
                            !.UndeterminedEvents =
                                [c \in 1..Cardinality(Validators) |-> <<c, 0, 0>>],
                            !.PendingRounds = <<[Index |-> 0, Decided |-> FALSE]>>]
    /\ commitCh = <<>>
    /\ received = <<>>
    /\ pdr = [c \in Callers |-> Idle]

NextRounds == DoInsertParents \/ DoDivideRounds

SpecRounds == InitRounds /\ [][NextRounds]_vars

-----------------------------------------------------------------------------
(* DecideRoundReceived as a function of the store: the Poset of the leaf   *)
(* events has taken seven events that reach frame 2, and the records of    *)
(* the rounds 1 and 2 hold what DecideAtropos may have decided about the   *)
(* roots of their frames.                                                  *)

\* The events inserted, in order: [creator, index, self-parent, other-parent].
ReceivedEvents ==
    << <<1, 1, <<1, 0, 0>>, <<2, 0, 0>> >>,
       <<2, 1, <<2, 0, 0>>, <<3, 0, 0>> >>,
       <<3, 1, <<3, 0, 0>>, <<1, 1, 0>> >>,
       <<2, 2, <<2, 1, 0>>, <<3, 1, 0>> >>,
       <<3, 2, <<3, 1, 0>>, <<1, 1, 0>> >>,
       <<1, 2, <<1, 1, 0>>, <<2, 2, 0>> >>,
       <<3, 3, <<3, 2, 0>>, <<1, 2, 0>> >> >>

\* The Poset after InsertEvent(e, false) for every e of events, in order.
RECURSIVE InsertAll(_, _)
InsertAll(p, events) ==
    IF events = <<>> THEN p
    ELSE LET e == Head(events)
         IN InsertAll(InsertEvent(p, NewEvent(<<e[1], e[2], 0>>, e[1], e[2], e[3],
                                               e[4], 0, <<>>),
                                  FALSE, TRUE, <<>>).p,
                      Tail(events))

ReceivedPoset ==
    InsertAll([NewPoset(LeafStore(NewInmemStore(Validators), Validators))
                  EXCEPT !.topologicalIndex = Cardinality(Validators),
                         !.UndeterminedEvents =
                             [c \in 1..Cardinality(Validators) |-> <<c, 0, 0>>]],
              ReceivedEvents)

\* The stored roots of a frame.
FrameRoots(s, frame) ==
    {h \in DOMAIN s.eventCache : s.eventCache[h].Root /\ s.eventCache[h].Frame = frame}

\* What the record of a round may hold for a root of its frame: nothing, the
\* event as no clotho, or the event as a clotho that is undecided, an
\* atropos, or no atropos.
RoundEntries == {"none", "event", "UNDEFINED", "TRUE", "FALSE"}

\* The record of a round for the choice d of an entry per root.
DecidedRecord(d) ==
    [Queued |-> TRUE,
     Events |-> [h \in {x \in DOMAIN d : d[x] # "none"} |->
                    [Clotho |-> d[h] # "event",
                     Atropos |-> IF d[h] = "event" THEN "UNDEFINED" ELSE d[h]]]]

InitReceive ==
    /\ \E d1 \in [FrameRoots(ReceivedPoset.Store, 1) -> RoundEntries],
          d2 \in [FrameRoots(ReceivedPoset.Store, 2) -> RoundEntries] :
         poset = [ReceivedPoset EXCEPT
                     !.Store = SetRoundCreated(
                                   SetRoundCreated(@, 1, DecidedRecord(d1)),
                                   2, DecidedRecord(d2))]
    /\ commitCh = <<>>
    /\ received = <<>>
    /\ pdr = [c \in Callers |-> Idle]

SpecReceive == InitReceive /\ [][DoDecideRoundReceived]_vars

-----------------------------------------------------------------------------
(* AtroposTimeSelection as a function of the store: the store holds the    *)
(* leaf events, two clothos, the roots of the frame before the new root    *)
(* with their time tables, and the new root e.                             *)

ClothoHashes == {<<1, 1, 0>>, <<2, 1, 0>>}

\* A clotho that is not yet an atropos: the second event of its creator.
ClothoEvent(c, op, frame, atropos) ==
    [NewEvent(<<c, 1, 0>>, c, 1, <<c, 0, 0>>, op, 0, <<>>)
        EXCEPT !.Root = TRUE, !.Clotho = TRUE, !.Atropos = atropos,
               !.Frame = frame, !.LamportTimestamp = 1]

\* The root of a creator in the frame before the new root.
PrevRootHash(c) == <<c, IF <<c, 1, 0>> \in ClothoHashes THEN 2 ELSE 1, 0>>

PrevRootEvent(c, frame) ==
    [NewEvent(PrevRootHash(c), c, PrevRootHash(c)[2],
              <<c, PrevRootHash(c)[2] - 1, 0>>, ZeroHash, 0, <<>>)
        EXCEPT !.Root = TRUE, !.Frame = frame,
               !.LamportTimestamp = PrevRootHash(c)[2]]

\* The new root: its root table holds the roots of the frame before.
NewRootEvent(frame) ==
    [NewEvent(<<1, 3, 0>>, 1, 3, PrevRootHash(1), PrevRootHash(2), 0, <<>>)
        EXCEPT !.Root = TRUE, !.Frame = frame, !.LamportTimestamp = 3,
               !.RootTable = [k \in {PrevRootHash(c) : c \in Validators}
                                 |-> frame - 1]]

RECURSIVE SetEvents(_, _)
SetEvents(s, evs) ==
    IF evs = <<>> THEN s ELSE SetEvents(SetEvent(s, Head(evs)), Tail(evs))

\* The votes a time table may hold: a lamport time for some of the clothos.
VoteTimes == 1..MaxVoteTime

TimeTables ==
    UNION {[D -> VoteTimes] : D \in SUBSET ClothoHashes}

\* The gaps frame(e) - frame(c) of the first two visits of a clotho.
FirstGaps == {CoinInterval, CoinInterval + 1}

InitAtropos ==
    /\ \E tt \in [{PrevRootHash(c) : c \in Validators} -> TimeTables],
          gap \in FirstGaps, atropos \in BOOLEAN :
         /\ poset =
              NewPoset(
                [SetEvents(LeafStore(NewInmemStore(Validators), Validators),
                           <<ClothoEvent(1, <<2, 0, 0>>, 1, FALSE),
                             ClothoEvent(2, ZeroHash, 2, atropos),
                             PrevRootEvent(1, gap), PrevRootEvent(2, gap),
                             PrevRootEvent(3, gap), NewRootEvent(1 + gap)>>)
                    EXCEPT !.timeTableCache =
                               [k \in {x \in DOMAIN tt : tt[x] # NewFlagTable}
                                   |-> tt[k]]])
         /\ received = [pc |-> "inserted", e |-> NewRootEvent(1 + gap),
                        err |-> "nil"]
    /\ commitCh = <<>>
    /\ pdr = [c \in Callers |-> Idle]

\* The orders in which a range loop may visit the elements of S.
Orders(S) ==
    {f \in [1..Cardinality(S) -> S] : \A i, j \in DOMAIN f : f[i] = f[j] => i = j}

\* The orders in which AtroposTimeSelection(e) may visit countMap: an order
\* of its keys, and for every key an order of its times.
CountMapOrders(s, e) ==
    IF MissingTimeTables(s, e) # {} THEN {<<>>}
    ELSE LET keys == CountMapKeys(s, e)
             timesOrders ==
                 {ts \in [keys -> UNION {Orders(CountMapTimes(s, e, k)) : k \in keys}] :
                     \A k \in keys : ts[k] \in Orders(CountMapTimes(s, e, k))}
         IN UNION {{[i \in DOMAIN ks |-> [key |-> ks[i], times |-> ts[ks[i]]]] :
                       ts \in timesOrders} : ks \in Orders(keys)}

\* The call AtroposTimeSelection(e) of InsertEvent for the new root.
DoAtroposTimeSelection ==
    /\ received.pc = "inserted"
    /\ \E order \in CountMapOrders(poset.Store, received.e) :
         \E r \in {AtroposTimeSelection(poset, received.e, order)} :
            /\ poset' = r.p
            /\ received' = [received EXCEPT !.pc = "selected", !.err = r.err]
    /\ UNCHANGED <<commitCh, pdr>>

SpecAtropos == InitAtropos /\ [][DoAtroposTimeSelection]_vars

-----------------------------------------------------------------------------
(* The loop of AtroposTimeSelection, one iteration at a time: a Poset of   *)
(* four validators has taken the seven events of three of them, the leaf   *)
(* event of the fourth is an ancestor of none, and the roots of frame 1    *)
(* hold time tables that vote for that leaf event and for a root of        *)
(* frame 1.  The new root is the root of frame 2.                          *)

AccountValidators == 1..4

\* The leaf events with the Lamport time InsertEvent gives an event whose
\* parents are not stored.
RECURSIVE LeafLamports(_, _)
LeafLamports(s, cs) ==
    IF cs = {} THEN s
    ELSE LET c == SetMin(cs)
         IN LeafLamports(SetEvent(s, [LeafRoot(c) EXCEPT
                                         !.LamportTimestamp =
                                             LamportOf(s, NewEvent(<<c, 0, 0>>, c, 0,
                                                 GenRootSelfParent(c), ZeroHash,
                                                 0, <<>>))]),
                         cs \ {c})

AccountPoset ==
    InsertAll([NewPoset(LeafLamports(LeafStore(NewInmemStore(AccountValidators),
                                               AccountValidators),
                                     AccountValidators))
                  EXCEPT !.topologicalIndex = Cardinality(AccountValidators),
                         !.UndeterminedEvents =
                             [c \in 1..Cardinality(AccountValidators)
                                 |-> <<c, 0, 0>>]],
              ReceivedEvents)

\* The new root, as InsertEvent stored it.
AccountRoot == GetEventBlock(AccountPoset.Store, <<3, 3, 0>>)

\* The clothos the time tables vote for.
AccountClothos == {<<4, 0, 0>>, <<1, 2, 0>>}

AccountTimeTables ==
    UNION {[D -> VoteTimes] : D \in SUBSET AccountClothos}

RECURSIVE MarkedClothos(_, _)
MarkedClothos(s, hs) ==
    IF hs = {} THEN s
    ELSE LET h == CHOOSE x \in hs : TRUE
         IN MarkedClothos(SetEvent(s, [GetEventBlock(s, h) EXCEPT !.Clotho = TRUE]),
                          hs \ {h})

InitAccount ==
    /\ \E tt \in [DOMAIN AccountRoot.RootTable -> AccountTimeTables] :
         /\ poset =
              [AccountPoset EXCEPT
                  !.Store = [MarkedClothos(@, AccountClothos) EXCEPT
                                !.timeTableCache =
                                    [k \in {x \in DOMAIN tt : tt[x] # NewFlagTable}
                                        |-> tt[k]]]]
         /\ received = [pc |-> "inserted", e |-> AccountRoot, visited |-> {},
                        timeTableCache |->
                            [k \in {x \in DOMAIN tt : tt[x] # NewFlagTable}
                                |-> tt[k]],
                        err |-> "nil"]
    /\ commitCh = <<>>
    /\ pdr = [c \in Callers |-> Idle]

\* The store countMap was built from: the votes do not change during the
\* loop, which writes the time table of the new root only.
CountMapStore == [poset.Store EXCEPT !.timeTableCache = received.timeTableCache]

\* One iteration of the range over countMap: any key not yet visited.
DoAtroposVisit ==
    /\ received.pc = "inserted"
    /\ MissingTimeTables(CountMapStore, received.e) = {}
    /\ \E key \in CountMapKeys(CountMapStore, received.e) \ received.visited :
         \E times \in Orders(CountMapTimes(CountMapStore, received.e, key)) :
            \E r \in {AtroposStep(poset, CountMapStore, received.e,
                                  [key |-> key, times |-> times])} :
               /\ poset' = r
               /\ received' = [received EXCEPT !.visited = @ \cup {key}]
    /\ UNCHANGED <<commitCh, pdr>>

\* The return of AtroposTimeSelection: a time table is missing, or the
\* range is over.
DoAtroposReturn ==
    /\ received.pc = "inserted"
    /\ \/ MissingTimeTables(CountMapStore, received.e) # {}
       \/ /\ MissingTimeTables(CountMapStore, received.e) = {}
          /\ CountMapKeys(CountMapStore, received.e) \subseteq received.visited
    /\ received' = [received EXCEPT
                       !.pc = "selected",
                       !.err = IF MissingTimeTables(CountMapStore, received.e) # {}
                               THEN "KeyNotFound" ELSE "nil"]
    /\ UNCHANGED <<poset, commitCh, pdr>>

NextAccount == DoAtroposVisit \/ DoAtroposReturn

SpecAccount == InitAccount /\ [][NextAccount]_vars

-----------------------------------------------------------------------------
(* The dominator predicate over its cache: a Poset of three validators     *)
(* that is reset to frames whose Roots may list the same other-parent,     *)
(* takes events, and answers dominator(x, y) for stored events.            *)

DominatorCaches ==
    [roundCache |-> EmptyCache, timestampCache |-> EmptyCache,
     dominatorCache |-> EmptyCache]

\* dominator returns a and has added it to the cache.
DominatorAdd(caches, x, y, a) ==
    [err |-> "nil", val |-> a,
     caches |-> [caches EXCEPT !.dominatorCache = CacheAdd(@, <<x, y>>, a)]]

\* dominator returns the error of dominator2; nothing is added.
DominatorErr(caches) == [err |-> "KeyNotFound", val |-> FALSE, caches |-> caches]

\* dominator2 with an x that is not stored: a Root that lists an
\* other-parent under y decides.
OthersOf(s, x, y) ==
    \E c \in DOMAIN s.rootsByParticipant :
        LET others == s.rootsByParticipant[c].Others
        IN y \in DOMAIN others /\ others[y].Hash = x

\* Poset.dominator over the dominator cache and the timestamp cache:
\* [err, val, caches].
RECURSIVE dominatorCached(_, _, _, _)
dominatorCached(s, caches, x, y) ==
    IF <<x, y>> \in DOMAIN caches.dominatorCache
    THEN [err |-> "nil", val |-> caches.dominatorCache[<<x, y>>], caches |-> caches]
    ELSE IF x = y THEN DominatorAdd(caches, x, y, TRUE)
    ELSE IF ~HasEvent(s, x) THEN DominatorAdd(caches, x, y, OthersOf(s, x, y))
    ELSE LET ex == GetEventBlock(s, x)
             xlt == lamportTimestampCached(s, caches.timestampCache, x)
             ylt == lamportTimestampCached(s, xlt.cache, y)
             c1 == [caches EXCEPT !.timestampCache = xlt.cache]
             c2 == [caches EXCEPT !.timestampCache = ylt.cache]
             res == dominatorCached(s, c2, ex.SelfParent, y)
             res2 == dominatorCached(s, res.caches, ex.OtherParent, y)
         IN
    IF xlt.err # "nil" THEN DominatorErr(c1)
    ELSE IF ylt.err # "nil" THEN DominatorErr(c2)
    ELSE IF ylt.val - xlt.val > 0 THEN DominatorAdd(c2, x, y, FALSE)
    ELSE IF ~HasEvent(s, y) /\ ~IsRootHash(s, y) THEN DominatorAdd(c2, x, y, FALSE)
    ELSE IF ~HasEvent(s, y) /\ ex.Creator = RootOfHash(s, y).SelfParent.CreatorID
    THEN DominatorAdd(c2, x, y, ex.Index >= RootOfHash(s, y).SelfParent.Index)
    ELSE IF HasEvent(s, y) /\ ex.Creator = GetEventBlock(s, y).Creator
    THEN DominatorAdd(c2, x, y, ex.Index >= GetEventBlock(s, y).Index)
    ELSE IF res.err # "nil" THEN DominatorErr(res.caches)
    ELSE IF res.val THEN DominatorAdd(res.caches, x, y, TRUE)
    ELSE IF res2.err # "nil" THEN DominatorErr(res2.caches)
    ELSE DominatorAdd(res2.caches, x, y, res2.val)

\* Reset, the caches it replaces by new ones.
ResetDominatorCaches(caches) ==
    [caches EXCEPT !.roundCache = EmptyCache, !.dominatorCache = EmptyCache]

\* The frames of a peer: the Roots of creators 1 and 2 are base Roots or
\* list, under the creator's first event, the same other-parent.
SharedFrames ==
    {[Roots |-> [c \in Validators |-> IF c \in w THEN RootWithOthers(c)
                                      ELSE NewBaseRoot(c)],
      Events |-> <<>>] : w \in SUBSET {1, 2}}

InitDominator ==
    /\ poset = NewPoset(NewInmemStore(Validators))
    /\ commitCh = <<>>
    /\ received = DominatorCaches
    /\ pdr = [c \in Callers |-> Idle]

\* A call Reset(block, frame) of a Poset with caches.
DoResetShared ==
    /\ \E block \in CacheBlocks, frame \in SharedFrames :
         \E r \in {Reset(poset, block, frame)} : poset' = r.p
    /\ received' = ResetDominatorCaches(received)
    /\ UNCHANGED <<commitCh, pdr>>

\* The other-parents the event with hash h of creator c may have: the one
\* its creator's Root lists under h, or else none or a stored event of
\* another creator.
SharedOtherParents(c, h) ==
    LET others == poset.Store.rootsByParticipant[c].Others
    IN IF h \in DOMAIN others THEN {others[h].Hash}
       ELSE {ZeroHash} \cup {x \in StoredHashes : x[1] # c}

\* The events offered: the next event of creator 1 or 2.
OfferedShared ==
    UNION {{NewEvent(HashOf(c, LastIndex(poset.Store.participantEventsCache[c]) + 1),
                     c, LastIndex(poset.Store.participantEventsCache[c]) + 1,
                     LastEventFrom(poset.Store, c), op, 0, <<>>) :
               op \in SharedOtherParents(
                          c, HashOf(c, LastIndex(poset.Store.participantEventsCache[c]) + 1))} :
           c \in {1, 2}}

\* A call InsertEvent(event, false).
DoInsertShared ==
    /\ Cardinality(StoredHashes) < MaxEvents
    /\ \E event \in OfferedShared :
         \E r \in {InsertEvent(poset, event, FALSE, TRUE, <<>>)} : poset' = r.p
    /\ UNCHANGED <<commitCh, received, pdr>>

\* A call dominator(x, y) for stored events, as DecideAtropos and
\* DecideRoundReceived make it.
DoDominator ==
    /\ \E x, y \in StoredHashes :
         \E r \in {dominatorCached(poset.Store, received, x, y)} :
            received' = r.caches
    /\ UNCHANGED <<poset, commitCh, pdr>>

NextDominator ==
    \/ DoResetShared
    \/ DoInsertShared
    \/ DoDominator
    \/ DoRound

SpecDominator == InitDominator /\ [][NextDominator]_vars

-----------------------------------------------------------------------------
(* Properties *)

Events == {poset.Store.eventCache[h] : h \in StoredHashes}

\* Every block sent on the commit channel so far, in the order of the sends.
Sent == received \o commitCh

\* C1: the store never holds two distinct events with the same creator and
\* the same creator-local index.
C1_NoFork ==
    \A e1, e2 \in Events :
        (e1.Creator = e2.Creator /\ e1.Index = e2.Index) => e1 = e2

\* C2: in every state, a call of InsertEvent that returns an error leaves the
\* Poset (event store, indexes, topological-index counter, UndeterminedEvents,
\* SigPool, pending-loaded counter) exactly as it was.
C2_ErrorLeavesPoset ==
    \A in \in Offered :
        LET r == InsertEvent(poset, in.event, in.wire, in.verified, <<>>)
        IN r.err # "nil" => r.p = poset

\* C8: every stored event whose self-parent is stored has the creator of its
\* self-parent and the index of its self-parent plus one, and the stored
\* indices of every creator form a gap-free run.
C8_SelfParentIndex ==
    /\ \A e \in Events :
           HasEvent(poset.Store, e.SelfParent) =>
               LET sp == GetEventBlock(poset.Store, e.SelfParent)
               IN sp.Creator = e.Creator /\ sp.Index = e.Index - 1
    /\ \A c \in poset.Store.participants :
           LET idx == {e.Index : e \in {x \in Events : x.Creator = c}}
           IN \A i \in idx, j \in idx : \A k \in i..j : k \in idx

\* The lamport timestamp of a parent as the rule of C9 counts it: a Root
\* self-parent counts with the lamport of the root descriptor.
ParentLamport(h) ==
    IF IsRootHash(poset.Store, h)
    THEN RootOfHash(poset.Store, h).SelfParent.LamportTimestamp
    ELSE GetEventBlock(poset.Store, h).LamportTimestamp

\* C9: the stored lamport timestamp of every event is one more than the
\* largest lamport timestamp of its parents (a Root self-parent counts with
\* the root descriptor's lamport, a missing other-parent with nothing), and
\* it is the value lamportTimestamp computes for the event's hash.
C9_Lamport ==
    \A e \in Events :
        LET spLT == ParentLamport(e.SelfParent)
            opLT == IF HasEvent(poset.Store, e.OtherParent)
                    THEN ParentLamport(e.OtherParent) ELSE spLT
        IN /\ e.LamportTimestamp = 1 + (IF opLT > spLT THEN opLT ELSE spLT)
           /\ e.LamportTimestamp = lamportTimestamp(poset.Store, e.Hash).val

\* C4: the k-th block sent on the commit channel carries the index k, counted
\* from 0: the indices rise by one, without a gap and without a repeat.
C4_BlockIndices == \A k \in DOMAIN Sent : Sent[k].Index = k - 1

\* Two blocks were sent and the application has taken both.
C4_Witness == Len(received) >= 2 /\ Len(Sent) = MaxFinalFrame

\* What C5 says a run of the pipeline leaves alone when nothing was inserted.
Committed ==
    <<Sent, poset.Store.blockCache, poset.Store.lastBlock,
      poset.LastConsensusRound, poset.PendingRounds, poset.PendingRoundReceived,
      poset.ConsensusTransactions, poset.Store.totConsensusEvents>>

StoredBlocks == {poset.Store.blockCache[i] : i \in DOMAIN poset.Store.blockCache}

Frames == {poset.Store.frameCache[r] : r \in DOMAIN poset.Store.frameCache}

\* The sequences that hold every element of the sequence q once.
Orderings(q) ==
    {o \in [DOMAIN q -> {q[k] : k \in DOMAIN q}] :
        \A i, j \in DOMAIN q : i # j => o[i] # o[j]}

\* The order of the key (atropos-timestamp, lamport-timestamp, flag-table
\* hash, signature XOR).
C12_KeyLess(a, b) ==
    IF a.AtroposTimestamp # b.AtroposTimestamp
    THEN a.AtroposTimestamp < b.AtroposTimestamp
    ELSE IF a.LamportTimestamp # b.LamportTimestamp
    THEN a.LamportTimestamp < b.LamportTimestamp
    ELSE IF FlagTableHash(a.FlagTable) # FlagTableHash(b.FlagTable)
    THEN FlagTableHash(a.FlagTable) < FlagTableHash(b.FlagTable)
    ELSE SignatureXor(a) < SignatureXor(b)

Accounts ==
    poset.Store.participants \cup
    {tx[1].Peer : tx \in FrameTransactions \ {<<>>}}

\* The balances a frame starts from: those of the frame before it, or the
\* genesis balances.
PriorState(f) ==
    IF f.Round = 1 THEN poset.Store.stateRoot
    ELSE poset.Store.frameCache[f.Round - 1].StateHash

\* The transfer of the claim: amount a from the sender to the named peer
\* when the sender holds at least a, nothing otherwise.
C16_Transfer(bal, sender, tx) ==
    IF tx.Type = "POS_TRANSFER" /\ bal[sender] >= tx.Amount
    THEN [a \in DOMAIN bal |->
             bal[a] - (IF a = sender THEN tx.Amount ELSE 0)
                    + (IF a = tx.Peer THEN tx.Amount ELSE 0)]
    ELSE bal

\* The internal transactions of the events, with their senders, in order.
RECURSIVE C16_Transfers(_)
C16_Transfers(events) ==
    IF events = <<>> THEN <<>>
    ELSE [k \in DOMAIN Head(events).InternalTransactions |->
             [sender |-> Head(events).Creator,
              tx |-> Head(events).InternalTransactions[k]]]
         \o C16_Transfers(Tail(events))

RECURSIVE C16_Balances(_, _)
C16_Balances(bal, transfers) ==
    IF transfers = <<>> THEN bal
    ELSE C16_Balances(C16_Transfer(bal, Head(transfers).sender, Head(transfers).tx),
                      Tail(transfers))

RECURSIVE SumBalances(_, _)
SumBalances(st, S) ==
    IF S = {} THEN 0
    ELSE LET a == CHOOSE x \in S : TRUE
         IN GetBalance(st, a) + SumBalances(st, S \ {a})

\* C16: the state of every frame is the state before it with the transfers
\* of the frame's events applied in order, each POS_TRANSFER only when the
\* sender holds the amount; the sum of the balances is that of the state
\* before, and no balance leaves the range of an unsigned word.
C16_InternalTransactions ==
    \A f \in Frames :
        /\ DOMAIN f.StateHash \subseteq Accounts
        /\ \A a \in Accounts :
               /\ GetBalance(f.StateHash, a) =
                      C16_Balances([x \in Accounts |-> GetBalance(PriorState(f), x)],
                                   C16_Transfers(f.Events))[a]
               /\ GetBalance(f.StateHash, a) \in 0..TotalSupply
        /\ SumBalances(f.StateHash, Accounts) = SumBalances(PriorState(f), Accounts)

\* A frame whose second event could pay only with what the first event
\* sent to it, followed by a frame whose transfer is under-funded.
C16_Witness ==
    /\ {1, 2} \subseteq DOMAIN poset.Store.frameCache
    /\ GetBalance(poset.Store.frameCache[1].StateHash, 3) = 3
    /\ \E k \in DOMAIN poset.Store.frameCache[2].Events :
           \E j \in DOMAIN poset.Store.frameCache[2].Events[k].InternalTransactions :
               LET tx == poset.Store.frameCache[2].Events[k].InternalTransactions[j]
               IN tx.Type = "POS_TRANSFER" /\ tx.Amount > 1
    /\ poset.Store.frameCache[2].StateHash = poset.Store.frameCache[1].StateHash

-----------------------------------------------------------------------------
(* The signature pool *)

\* The signatures of a stored block, none for a block that is not stored.
SignaturesOf(s, i) == IF HasBlock(s, i) THEN s.blockCache[i].Signatures ELSE {}

\* What a pass of ProcessSigPool over the current pool does to the anchor.
C13_Pass ==
    \A r \in {ProcessSigPool(poset)} :
        /\ r.p.AnchorBlock # <<>> =>
               Cardinality(SignaturesOf(r.p.Store, r.p.AnchorBlock[1]))
                   > Cardinality(Validators) \div 3
        /\ \A i \in DOMAIN r.p.Store.blockCache :
               (/\ SignaturesOf(r.p.Store, i) # SignaturesOf(poset.Store, i)
                /\ Cardinality(SignaturesOf(r.p.Store, i))
                       > Cardinality(Validators) \div 3)
               => r.p.AnchorBlock # <<>> /\ r.p.AnchorBlock[1] >= i
        /\ r.p.AnchorBlock # poset.AnchorBlock =>
               \E k \in r.processed :
                   /\ poset.SigPool[k + 1].Index = r.p.AnchorBlock[1]
                   /\ poset.SigPool[k + 1].Validator \in Validators
                   /\ poset.SigPool[k + 1].Signature = "valid"
                   /\ poset.AnchorBlock # <<>> =>
                          poset.SigPool[k + 1].Index > poset.AnchorBlock[1]

\* A step leaves the anchor where it is or moves it up; Reset unsets it.
C13_Step ==
    poset.AnchorBlock # <<>> =>
        \/ poset'.AnchorBlock = <<>>
        \/ poset'.AnchorBlock[1] >= poset.AnchorBlock[1]

\* C13: ProcessSigPool sets AnchorBlock to i exactly when a valid signature
\* of a participant was attached to block i, block i then holds more than
\* trust-count signatures and i is above the anchor (or none is set); a
\* block with trust-count signatures or fewer is never the anchor, and the
\* anchor never decreases between Resets.
C13_AnchorBlock == [](C13_Pass) /\ [][C13_Step]_vars

\* A pass set the anchor to block 0, and block 1 holds a signature a pass
\* attached that did not move the anchor: one signature is the trust count.
C13_Witness ==
    /\ poset.AnchorBlock = <<0>>
    /\ SignaturesOf(poset.Store, 0) = {1, 3}
    /\ SignaturesOf(poset.Store, 1) = {1}

\* C14: after a pass of ProcessSigPool that returns nil, the SigPool holds
\* no signature of a validator that is not a participant.
C14_UnknownValidators ==
    \A r \in {ProcessSigPool(poset)} :
        r.err = "nil" =>
            \A k \in 1..Len(r.p.SigPool) :
                r.p.SigPool[k].Validator \in poset.Store.participants

\* The signatures of a pool at the positions (from 0) a pass did not mark.
RECURSIVE C15_NotProcessed(_, _, _)
C15_NotProcessed(pool, processed, i) ==
    IF i >= Len(pool) THEN <<>>
    ELSE (IF i \in processed THEN <<>> ELSE <<pool[i + 1]>>)
             \o C15_NotProcessed(pool, processed, i + 1)

\* C15: after a pass of ProcessSigPool the SigPool holds exactly the
\* signatures the pass did not mark processed, in their previous order,
\* whatever their block indices and their positions in the pool.
C15_Remaining ==
    \A r \in {ProcessSigPool(poset)} :
        r.p.SigPool = C15_NotProcessed(poset.SigPool, r.processed, 0)

-----------------------------------------------------------------------------
(* Unknown other-parents *)

\* The creator's Root lists, under the hash of the event, a RootEvent whose
\* hash is the other-parent of the event.
C18_Listed(s, event) ==
    /\ event.Creator \in DOMAIN s.rootsByParticipant
    /\ event.Hash \in DOMAIN s.rootsByParticipant[event.Creator].Others
    /\ s.rootsByParticipant[event.Creator].Others[event.Hash].Hash
           = event.OtherParent

\* C18: InsertEvent accepts an event whose non-empty other-parent is not a
\* stored event only if the creator's Root lists that other-parent under
\* the hash of the event; otherwise it returns an error and the event is
\* not stored.
C18_UnknownOtherParent ==
    \A event \in OfferedOther :
        \A r \in {InsertEvent(poset, event, FALSE, TRUE, <<>>)} :
            (/\ event.OtherParent # ZeroHash
             /\ ~HasEvent(poset.Store, event.OtherParent)
             /\ ~C18_Listed(poset.Store, event))
            => /\ r.err # "nil"
               /\ ~HasEvent(r.p.Store, event.Hash)
               /\ r.p.Store.eventCache = poset.Store.eventCache

\* An event is stored whose other-parent no event of the store is: the
\* creator's Root listed it.
C18_Witness ==
    \E h \in StoredHashes :
        /\ poset.Store.eventCache[h].OtherParent = UnknownHash
        /\ C18_Listed(poset.Store, poset.Store.eventCache[h])

-----------------------------------------------------------------------------
(* Progress of the pipeline *)

\* The hashes an inserted event can have.
EventHashes == {<<c, i, v>> : c \in Peers, i \in 0..MaxIndex, v \in 0..MaxEvents}

\* Event h waits in UndeterminedEvents.
Undetermined(h) ==
    \E k \in 1..Len(poset.UndeterminedEvents) : poset.UndeterminedEvents[k] = h

\* The stored events come from a supermajority of the participants.
SuperMajorityInserted ==
    Cardinality({h[1] : h \in StoredHashes}) >= GetSuperMajority(poset.Store)

-----------------------------------------------------------------------------
(* The SigPool under concurrent calls *)

\* How often the signature bs occurs in the sequence q.
Occurrences(q, bs) == Cardinality({k \in 1..Len(q) : q[k] = bs})

\* How often the events InsertEvent has accepted carry the signature bs.
Inserted(bs) ==
    Cardinality({x \in StoredHashes \X (1..MaxSigPool) :
                    /\ x[2] <= Len(poset.Store.eventCache[x[1]].BlockSignatures)
                    /\ poset.Store.eventCache[x[1]].BlockSignatures[x[2]] = bs})

\* C19: InsertEvent may run beside ProcessSigPool: once both have returned,
\* no block signature that was appended is lost from the SigPool or is in
\* it twice. (No block is stored, so no pass processes a signature.)
C19_SigPool ==
    (\A c \in Callers : pdr[c].pc = "idle")
        => \A bs \in PoolSignatures :
               Occurrences(poset.SigPool, bs) = Inserted(bs)

-----------------------------------------------------------------------------
(* Locks across store calls *)

\* C20: no goroutine holds a lock of the Poset while it is inside a method
\* of the store that has taken a lock of the store.
C20_NoLockAcrossStore ==
    \A c \in Callers : pdr[c].store # {} => pdr[c].held = {}


-----------------------------------------------------------------------------
(* The caches across a Reset *)

\* C21: when Reset returns, neither the round cache nor the timestamp cache
\* holds an entry that was computed before the Reset.
C21_CachesCleared ==
    [][(\E block \in CacheBlocks, frame \in ResetFrames :
           poset' = Reset(poset, block, frame).p)
       /\ received' = ResetCaches(received)
          => received' = NoCaches]_vars

-----------------------------------------------------------------------------
(* Reconnection of the proxy *)

\* C22: a SubmitTx returns an error only after Close; and when the server
\* has gone away and come back, stays up, and Close is not called, a
\* SubmitTx issued afterwards returns nil with its transaction taken by
\* the server.
C22_Reconnects ==
    /\ [](pdr["SubmitTx"].ret # "nil" => poset.shutdown)
    /\ (<>[](received.server # 0 /\ ~poset.shutdown)
           => \A k \in 1..MaxCalls :
                 (pdr["SubmitTx"].tx = k /\ pdr["SubmitTx"].pc # "idle"
                     /\ pdr["SubmitTx"].issuedAt >= 2 /\ received.server # 0)
                 ~> (pdr["SubmitTx"].tx = k /\ pdr["SubmitTx"].pc = "idle"
                        /\ pdr["SubmitTx"].ret = "nil"
                        /\ \E i \in DOMAIN commitCh : commitCh[i] = k))

\* A SubmitTx issued after the second start of the server has returned nil
\* over a stream to that server.
C22_Witness ==
    /\ pdr["SubmitTx"].issuedAt >= 2
    /\ pdr["SubmitTx"].pc = "idle"
    /\ pdr["SubmitTx"].ret = "nil"
    /\ poset.stream >= 2
    /\ \E i \in DOMAIN commitCh : commitCh[i] = pdr["SubmitTx"].tx

-----------------------------------------------------------------------------
(* KnownEvents *)

\* C23: KnownEvents gives for every participant the index of its last
\* stored event, or without one the index of its Root's self-parent, and
\* the Badger store gives the same map as the in-memory store.
C23_KnownEvents ==
    /\ \A c \in poset.Store.participants :
          InmemKnownEvents(poset.Store)[c] =
             IF \E h \in StoredHashes : poset.Store.eventCache[h].Creator = c
             THEN GetEventBlock(poset.Store, LastEventFrom(poset.Store, c)).Index
             ELSE poset.Store.rootsByParticipant[c].SelfParent.Index
    /\ BadgerKnownEvents(poset.Store) = InmemKnownEvents(poset.Store)

-----------------------------------------------------------------------------
(* Frames and roots *)

\* The stored events that InsertEvent took with a stored self-parent.
WithParents ==
    {h \in StoredHashes : HasEvent(poset.Store, poset.Store.eventCache[h].SelfParent)}

\* The union of the flag-tables of the two parents of a stored event.
MergedParents(h) ==
    LET sp == GetEventBlock(poset.Store, poset.Store.eventCache[h].SelfParent)
        op == GetEventBlock(poset.Store, poset.Store.eventCache[h].OtherParent)
    IN [k \in DOMAIN sp.FlagTable \cup DOMAIN op.FlagTable |->
           IF k \in DOMAIN sp.FlagTable THEN sp.FlagTable[k] ELSE op.FlagTable[k]]

\* C24: an event whose parents have the same frame f is, when the merged
\* flag-table of the parents has at least supermajority entries, a root of
\* frame f + 1 whose root-table is the merged table and whose flag-table is
\* the singleton of its own hash at f + 1; otherwise it is no root, has
\* frame f and has the merged table as flag-table.
C24_EqualFrames ==
    \A h \in WithParents :
        LET e == poset.Store.eventCache[h]
            sp == GetEventBlock(poset.Store, e.SelfParent)
            op == GetEventBlock(poset.Store, e.OtherParent)
        IN sp.Frame = op.Frame =>
              IF Cardinality(DOMAIN MergedParents(h)) >= GetSuperMajority(poset.Store)
              THEN /\ e.Root
                   /\ e.Frame = sp.Frame + 1
                   /\ e.RootTable = MergedParents(h)
                   /\ DOMAIN e.FlagTable = {h}
                   /\ e.FlagTable[h] = sp.Frame + 1
              ELSE /\ ~e.Root
                   /\ e.Frame = sp.Frame
                   /\ e.FlagTable = MergedParents(h)

\* A root and a non-root, each with two stored parents of one frame.
C24_Witness ==
    /\ \E h \in WithParents :
          LET e == poset.Store.eventCache[h]
          IN /\ e.Root
             /\ HasEvent(poset.Store, e.OtherParent)
             /\ GetEventBlock(poset.Store, e.OtherParent).Frame =
                   GetEventBlock(poset.Store, e.SelfParent).Frame
    /\ \E h \in WithParents :
          LET e == poset.Store.eventCache[h]
          IN /\ ~e.Root
             /\ HasEvent(poset.Store, e.OtherParent)
             /\ GetEventBlock(poset.Store, e.OtherParent).Frame =
                   GetEventBlock(poset.Store, e.SelfParent).Frame

C27_RootIsFirstInFrame ==
    \A h \in StoredHashes :
        LET e == poset.Store.eventCache[h]
        IN e.Root <=>
              ~\E g \in StoredHashes :
                  /\ poset.Store.eventCache[g].Creator = e.Creator
                  /\ poset.Store.eventCache[g].Frame = e.Frame
                  /\ poset.Store.eventCache[g].TopologicalIndex < e.TopologicalIndex

-----------------------------------------------------------------------------
(* DecideAtropos *)

-----------------------------------------------------------------------------
(* AtroposTimeSelection *)

\* The vote the new root e holds for the clotho c, if it holds one.
HasVote(s, e, c) ==
    HasTimeTable(s, e.Hash) /\ c \in DOMAIN GetTimeTable(s, e.Hash)

C29_RecordedVote ==
    [][(received.pc = "inserted" /\ received'.err = "nil")
          => \A c \in CountMapKeys(poset.Store, received.e) :
                LET cl == GetEventBlock(poset.Store, c)
                    coin == (received.e.Frame - cl.Frame) % 4 = 0
                IN ~cl.Atropos
                   => /\ HasVote(poset'.Store, received.e, c)
                         => GetTimeTable(poset'.Store, received.e.Hash)[c]
                               = IF coin
                                 THEN SetMin(CountMapTimes(poset.Store, received.e, c))
                                 ELSE MaxInd(poset.Store, received.e, c)
                      /\ (coin \/ MaxVal(poset.Store, received.e, c)
                                     < GetSuperMajority(poset.Store))
                         => HasVote(poset'.Store, received.e, c)]_vars

\* Witness: the new root has recorded a vote for a clotho in a regular round
\* in which two times had the same number of votes.
C29_Witness ==
    /\ received.pc = "selected"
    /\ received.err = "nil"
    /\ \E c \in ClothoHashes :
         /\ (received.e.Frame - GetEventBlock(poset.Store, c).Frame) % 4 # 0
         /\ HasVote(poset.Store, received.e, c)
         /\ \E t1, t2 \in CountMapTimes(poset.Store, received.e, c) :
              /\ t1 # t2
              /\ CountMapGet(poset.Store, received.e, c, t1)
                    = CountMapGet(poset.Store, received.e, c, t2)
              /\ CountMapGet(poset.Store, received.e, c, t1)
                    = MaxVal(poset.Store, received.e, c)


-----------------------------------------------------------------------------
(* Dominators and caches *)

\* y is reachable from x by following the self-parent and other-parent
\* edges of stored events.
RECURSIVE Reachable(_, _, _)
Reachable(s, x, y) ==
    \/ x = y
    \/ /\ HasEvent(s, x)
       /\ \/ Reachable(s, GetEventBlock(s, x).SelfParent, y)
          \/ Reachable(s, GetEventBlock(s, x).OtherParent, y)

ForkFree(s) ==
    \A h1, h2 \in DOMAIN s.eventCache : (h1[1] = h2[1] /\ h1[2] = h2[2]) => h1 = h2

\* C31: for all stored events x and y of a fork-free store, dominator(x, y)
\* returns true exactly when y is reachable from x by following self-parent
\* and other-parent edges (x = y included), whether the answer is computed or
\* taken from the cache.
C31_DominatorIsReachability ==
    ForkFree(poset.Store)
    => \A x, y \in StoredHashes :
          /\ dominatorCached(poset.Store, received, x, y).err = "nil"
          /\ dominatorCached(poset.Store, received, x, y).val
                = Reachable(poset.Store, x, y)
          /\ dominator(poset.Store, x, y).val = Reachable(poset.Store, x, y)


\* C40: a value held by the dominator, round or timestamp cache always equals
\* what the uncached computation returns on the current store.
C40_CacheEqualsComputation ==
    /\ \A k \in DOMAIN received.dominatorCache :
          dominator(poset.Store, k[1], k[2]) = Ok(received.dominatorCache[k])
    /\ \A x \in DOMAIN received.roundCache :
          round(poset.Store, x) = Ok(received.roundCache[x])
    /\ \A x \in DOMAIN received.timestampCache :
          lamportTimestamp(poset.Store, x) = Ok(received.timestampCache[x])


-----------------------------------------------------------------------------
(* Reset and the queues *)

\* The block signatures the events of a frame carry, in the order of the
\* events.
RECURSIVE CarriedSignatures(_)
CarriedSignatures(events) ==
    IF events = <<>> THEN <<>>
    ELSE Head(events).BlockSignatures \o CarriedSignatures(Tail(events))

\* C32: after Reset(block, frame) returns nil no queue content from before
\* the Reset survives: UndeterminedEvents holds exactly the frame's events,
\* PendingRounds and PendingRoundReceived hold no round queued before the
\* Reset, SigPool holds only block signatures carried by the frame's events,
\* AnchorBlock is unset and the topological index has restarted at 0 with the
\* first frame event.
C32_ResetClearsQueues ==
    [][\A block \in ResetBlocks, frame \in ResetFrames :
          (Reset(poset, block, frame).err = "nil"
              /\ poset' = Reset(poset, block, frame).p)
          => /\ poset'.UndeterminedEvents
                   = [i \in DOMAIN frame.Events |-> frame.Events[i].Hash]
             /\ poset'.PendingRounds = <<>>
             /\ poset'.PendingRoundReceived = <<>>
             /\ poset'.SigPool = CarriedSignatures(frame.Events)
             /\ poset'.AnchorBlock = <<>>
             /\ poset'.topologicalIndex = Len(frame.Events)]_vars


-----------------------------------------------------------------------------
(* Termination of ProcessDecidedRounds *)

-----------------------------------------------------------------------------
(* The last consensus round *)

-----------------------------------------------------------------------------
(* The channels of the proxy after Close *)

\* C39: the commit, snapshot and restore channels are closed at most once
\* (no goroutine takes the shutdown branch of reConnect once they are
\* closed), and no goroutine is at a send on one of them once they are
\* closed, in any interleaving of Close with the goroutines.
C39_ClosedOnceNoSend ==
    [][/\ ChannelsClosed(poset)
            => ~(poset.reconnectTicket = <<>>
                    /\ poset'.reconnectTicket = <<ZeroTime>>)
       /\ ChannelsClosed(poset') => pdr'["listenEvents"].pc \notin Channels]_vars


-----------------------------------------------------------------------------
(* The round records and the queue of pending rounds *)

-----------------------------------------------------------------------------
(* DecideRoundReceived and the undetermined events *)

\* The round-received the store holds for the event x.
FrameReceivedOf(s, x) == GetEventBlock(s, x).FrameReceived

====
